---- MODULE Spec2Model ----
(***************************************************************************)
(* A model of libopensesame/item.py: the variable store of an item (set,   *)
(* unset, has, get), the substitution engine (eval_text) with its          *)
(* recursion lock, type coercion (auto_type) and the definition format     *)
(* (from_string, to_string).                                               *)
(*                                                                         *)
(* Text is a sequence of one-character strings.  A variable name is a text *)
(* too, so that the identifier rule, the bracket scanner and the shell     *)
(* style tokenizer all work on the characters the code works on.           *)
(***************************************************************************)
EXTENDS Integers, Sequences, FiniteSets, TLC

VARIABLES attrs, variables, comments, get_lock, experiment, stack, last, result,
          bytecode, platform

vars == <<attrs, variables, comments, get_lock, experiment, stack, last, result,
          bytecode, platform>>

(***************************************************************************)
(* Characters and text helpers                                             *)
(***************************************************************************)
NL == "\n"
TAB == "\t"
DQ == "\""
SQ == "'"
BS == "\\"
CR == "\r"

Whitespace == {" ", TAB, NL, CR}

Digits == {"0", "1", "2", "3", "4", "5", "6", "7", "8", "9"}

Letters == {"a", "b", "c", "d", "e", "f", "g", "h", "i", "j", "k", "l", "m",
            "n", "o", "p", "q", "r", "s", "t", "u", "v", "w", "x", "y", "z",
            "A", "B", "C", "D", "E", "F", "G", "H", "I", "J", "K", "L", "M",
            "N", "O", "P", "Q", "R", "S", "T", "U", "V", "W", "X", "Y", "Z"}

DigitVal(c) ==
    CASE c = "0" -> 0 [] c = "1" -> 1 [] c = "2" -> 2 [] c = "3" -> 3
      [] c = "4" -> 4 [] c = "5" -> 5 [] c = "6" -> 6 [] c = "7" -> 7
      [] c = "8" -> 8 [] c = "9" -> 9

DigitChar(d) ==
    CASE d = 0 -> "0" [] d = 1 -> "1" [] d = 2 -> "2" [] d = 3 -> "3"
      [] d = 4 -> "4" [] d = 5 -> "5" [] d = 6 -> "6" [] d = 7 -> "7"
      [] d = 8 -> "8" [] d = 9 -> "9"

\* s[a..b] with Python's clamping: the characters at 1-based positions a..b.
Slice(s, a, b) ==
    IF a > b \/ a > Len(s) THEN <<>>
    ELSE SubSeq(s, IF a < 1 THEN 1 ELSE a, IF b > Len(s) THEN Len(s) ELSE b)

\* The least position >= from where s holds the character c, or 0.
FindChar(s, c, from) ==
    LET hits == {i \in from..Len(s) : s[i] = c}
    IN  IF hits = {} THEN 0 ELSE CHOOSE i \in hits : \A j \in hits : i <= j

StartsWith(s, p) == Len(s) >= Len(p) /\ SubSeq(s, 1, Len(p)) = p

\* str.strip(): whitespace removed at both ends.
Strip(s) ==
    LET keep == {i \in 1..Len(s) : s[i] \notin Whitespace}
    IN  IF keep = {} THEN <<>>
        ELSE LET lo == CHOOSE i \in keep : \A j \in keep : i <= j
                 hi == CHOOSE i \in keep : \A j \in keep : i >= j
             IN  SubSeq(s, lo, hi)

\* str.split("\n")
RECURSIVE SplitLines(_)
SplitLines(s) ==
    LET p == FindChar(s, NL, 1)
    IN  IF p = 0 THEN <<s>>
        ELSE <<Slice(s, 1, p - 1)>> \o SplitLines(Slice(s, p + 1, Len(s)))

RECURSIVE Flatten(_)
Flatten(ss) == IF ss = <<>> THEN <<>> ELSE Head(ss) \o Flatten(Tail(ss))

(***************************************************************************)
(* Values: int, float, str, bool, plus the non-scalar things an attribute  *)
(* of the item can hold (None, a bound method).  One record shape for all. *)
(* A float is n / Scale, a fixed-point number with FracDigits decimals.    *)
(***************************************************************************)
FracDigits == 7

RECURSIVE Pow10(_)
Pow10(k) == IF k = 0 THEN 1 ELSE 10 * Pow10(k - 1)

Scale == Pow10(FracDigits)

IntV(n) == [t |-> "int", n |-> n, s |-> <<>>]
FloatV(n) == [t |-> "float", n |-> n, s |-> <<>>]
StrV(s) == [t |-> "str", n |-> 0, s |-> s]
BoolV(b) == [t |-> "bool", n |-> IF b THEN 1 ELSE 0, s |-> <<>>]
NoneV == [t |-> "none", n |-> 0, s |-> <<>>]
MethodV(name) == [t |-> "method", n |-> 0, s |-> name]

\* An exception, as the outcome of a call.
Err(kind) == [t |-> "error", n |-> 0, s |-> <<kind>>]
IsErr(v) == v.t = "error"
ErrKind(v) == v.s[1]

RECURSIVE NatDigits(_)
NatDigits(n) ==
    IF n < 10 THEN <<DigitChar(n)>>
    ELSE Append(NatDigits(n \div 10), DigitChar(n % 10))

\* The k decimals of the fraction f (0 <= f < 10^k), trailing zeros dropped,
\* at least one digit kept.
RECURSIVE FracText(_, _)
FracText(f, k) ==
    IF k = 1 THEN <<DigitChar(f)>>
    ELSE IF f % 10 = 0 THEN FracText(f \div 10, k - 1)
    ELSE Append(FracText(f \div 10, k - 1), DigitChar(f % 10))

\* str(val): the decimal text of a number (the shortest one: the model's
\* floats have at most FracDigits decimals), a string as it is.
str(v) ==
    CASE v.t = "int" ->
           IF v.n < 0 THEN <<"-">> \o NatDigits(0 - v.n) ELSE NatDigits(v.n)
      [] v.t = "float" ->
           LET a == IF v.n < 0 THEN 0 - v.n ELSE v.n
           IN  (IF v.n < 0 THEN <<"-">> ELSE <<>>) \o NatDigits(a \div Scale)
               \o <<".">> \o FracText(a % Scale, FracDigits)
      [] v.t = "str" -> v.s
      [] v.t = "bool" -> IF v.n = 1 THEN <<"T", "r", "u", "e">>
                         ELSE <<"F", "a", "l", "s", "e">>
      [] v.t = "none" -> <<"N", "o", "n", "e">>
      [] v.t = "method" -> <<"<", "b", "o", "u", "n", "d", " ">> \o v.s \o <<">">>

RECURSIVE NatOf(_)
NatOf(ds) ==
    IF ds = <<>> THEN 0 ELSE 10 * NatOf(SubSeq(ds, 1, Len(ds) - 1)) + DigitVal(ds[Len(ds)])

\* The fraction digits ds as a number of 1/Scale units (digits beyond
\* FracDigits are dropped).
FracOf(ds) ==
    LET k == IF Len(ds) > FracDigits THEN FracDigits ELSE Len(ds)
    IN  NatOf(SubSeq(ds, 1, k)) * Pow10(FracDigits - k)

AllDigits(s) == \A i \in 1..Len(s) : s[i] \in Digits

\* The integer part ipart and the fraction part fpart as a float.
ParseParts(neg, ipart, fpart) ==
    IF AllDigits(ipart) /\ AllDigits(fpart) /\ Len(ipart) + Len(fpart) > 0
    THEN [ok |-> TRUE, neg |-> neg, ip |-> NatOf(ipart), fp |-> FracOf(fpart)]
    ELSE [ok |-> FALSE, neg |-> FALSE, ip |-> 0, fp |-> 0]

\* The unsigned text s, whose first point (if any) is at p, as a float.
ParsePoint(neg, s, p) ==
    ParseParts(neg,
               IF p = 0 THEN s ELSE Slice(s, 1, p - 1),
               IF p = 0 THEN <<>> ELSE Slice(s, p + 1, Len(s)))

\* The stripped text s0 as a float.
ParseSigned(s0, s) == ParsePoint(s0 # <<>> /\ s0[1] = "-", s, FindChar(s, ".", 1))

ParseStripped(s0) ==
    ParseSigned(s0, IF s0 # <<>> /\ s0[1] \in {"-", "+"} THEN Tail(s0) ELSE s0)

\* float(text): [ok, neg, ip, fp].  The grammar is the decimal one:
\* surrounding whitespace, a sign, digits with at most one point and at
\* least one digit.  (Exponents and inf/nan are outside the modelled texts.)
ParseFloat(text) == ParseStripped(Strip(text))

\* The try of item.auto_type on a string val, f being what float(val)
\* reads: the integer when the float is one, the float otherwise, and the
\* string itself when float(val) raises.
auto_type_try(val, f) ==
    IF ~f.ok THEN val
    ELSE IF f.fp = 0 THEN IntV(IF f.neg THEN 0 - f.ip ELSE f.ip)
    ELSE FloatV(IF f.neg THEN 0 - (f.ip * Scale + f.fp) ELSE f.ip * Scale + f.fp)

\* item.auto_type, were it to return a boolean as it is.
Mut_auto_type_keeps_bool(val) ==
    IF val.t = "str" THEN auto_type_try(val, ParseFloat(val.s))
    ELSE IF val.t = "float" /\ val.n % Scale = 0 THEN IntV(val.n \div Scale)
    ELSE val

\* item.auto_type
auto_type(val) ==
    IF val.t = "bool" THEN StrV(IF val.n = 1 THEN <<"y", "e", "s">> ELSE <<"n", "o">>)
    ELSE IF val.t = "int" THEN val
    ELSE IF val.t = "float" THEN
        IF val.n % Scale = 0 THEN IntV(val.n \div Scale) ELSE val
    ELSE IF val.t = "str" THEN auto_type_try(val, ParseFloat(val.s))
    ELSE StrV(str(val))

(***************************************************************************)
(* Names                                                                   *)
(***************************************************************************)
N_name == <<"n", "a", "m", "e">>
N_count == <<"c", "o", "u", "n", "t">>
N_item_type == <<"i", "t", "e", "m", "_", "t", "y", "p", "e">>
N_description == <<"d", "e", "s", "c", "r", "i", "p", "t", "i", "o", "n">>
N_round_decimals == <<"r", "o", "u", "n", "d", "_", "d", "e", "c", "i", "m", "a", "l", "s">>
N_item == <<"i", "t", "e", "m">>
N_set == <<"s", "e", "t">>
N_get == <<"g", "e", "t">>
N_from_string == <<"f", "r", "o", "m", "_", "s", "t", "r", "i", "n", "g">>

\* The statements and operators of the host language: none of them can
\* follow "self." in the statement that set executes.
PyKeywords ==
    {<<"a", "n", "d">>,
     <<"a", "s">>,
     <<"a", "s", "s", "e", "r", "t">>,
     <<"b", "r", "e", "a", "k">>,
     <<"c", "l", "a", "s", "s">>,
     <<"c", "o", "n", "t", "i", "n", "u", "e">>,
     <<"d", "e", "f">>,
     <<"d", "e", "l">>,
     <<"e", "l", "i", "f">>,
     <<"e", "l", "s", "e">>,
     <<"e", "x", "c", "e", "p", "t">>,
     <<"e", "x", "e", "c">>,
     <<"f", "i", "n", "a", "l", "l", "y">>,
     <<"f", "o", "r">>,
     <<"f", "r", "o", "m">>,
     <<"g", "l", "o", "b", "a", "l">>,
     <<"i", "f">>,
     <<"i", "m", "p", "o", "r", "t">>,
     <<"i", "n">>,
     <<"i", "s">>,
     <<"l", "a", "m", "b", "d", "a">>,
     <<"n", "o", "t">>,
     <<"o", "r">>,
     <<"p", "a", "s", "s">>,
     <<"p", "r", "i", "n", "t">>,
     <<"r", "a", "i", "s", "e">>,
     <<"r", "e", "t", "u", "r", "n">>,
     <<"t", "r", "y">>,
     <<"w", "h", "i", "l", "e">>,
     <<"w", "i", "t", "h">>,
     <<"y", "i", "e", "l", "d">>}

\* The operations of the class: attributes of every item.
ClassAttrs ==
    {<<"_", "_", "i", "n", "i", "t", "_", "_">>,
     <<"p", "r", "e", "p", "a", "r", "e">>,
     <<"r", "u", "n">>,
     <<"p", "a", "r", "s", "e", "_", "v", "a", "r", "i", "a", "b", "l", "e">>,
     <<"p", "a", "r", "s", "e", "_", "c", "o", "m", "m", "e", "n", "t">>,
     <<"v", "a", "r", "i", "a", "b", "l", "e", "_", "t", "o", "_", "s", "t", "r", "i", "n", "g">>,
     <<"f", "r", "o", "m", "_", "s", "t", "r", "i", "n", "g">>,
     <<"t", "o", "_", "s", "t", "r", "i", "n", "g">>,
     <<"s", "e", "t">>,
     <<"u", "n", "s", "e", "t">>,
     <<"g", "e", "t">>,
     <<"g", "e", "t", "_", "c", "h", "e", "c", "k">>,
     <<"h", "a", "s">>,
     <<"g", "e", "t", "_", "r", "e", "f", "s">>,
     <<"a", "u", "t", "o", "_", "t", "y", "p", "e">>,
     <<"s", "e", "t", "_", "i", "t", "e", "m", "_", "o", "n", "s", "e", "t">>,
     <<"d", "u", "m", "m", "y">>,
     <<"e", "v", "a", "l", "_", "t", "e", "x", "t">>,
     <<"c", "o", "m", "p", "i", "l", "e", "_", "c", "o", "n", "d">>,
     <<"v", "a", "r", "_", "i", "n", "f", "o">>,
     <<"u", "s", "a", "n", "i", "t", "i", "z", "e">>,
     <<"s", "a", "n", "i", "t", "i", "z", "e">>,
     <<"u", "n", "s", "a", "n", "i", "t", "i", "z", "e">>,
     <<"c", "o", "l", "o", "r", "_", "c", "h", "e", "c", "k">>,
     <<"s", "l", "e", "e", "p">>,
     <<"t", "i", "m", "e">>,
     <<"l", "o", "g">>,
     <<"f", "l", "u", "s", "h", "_", "l", "o", "g">>}

\* The fields of an item the model does not keep in attrs: those that
\* hold an object and not a scalar (variables, comments and _get_lock are
\* variables of their own), and the description.  No modelled call of set
\* or unset names one of these fields.
ObjectFields ==
    {N_description,
     <<"e", "x", "p", "e", "r", "i", "m", "e", "n", "t">>,
     <<"d", "e", "b", "u", "g">>,
     <<"r", "e", "s", "e", "r", "v", "e", "d", "_", "w", "o", "r", "d", "s">>,
     <<"_", "g", "e", "t", "_", "l", "o", "c", "k">>,
     <<"v", "a", "r", "i", "a", "b", "l", "e", "s">>,
     <<"c", "o", "m", "m", "e", "n", "t", "s">>}

\* item.__init__: self.reserved_words
reserved_words ==
    {<<"r", "u", "n">>,
     <<"p", "r", "e", "p", "a", "r", "e">>,
     <<"g", "e", "t">>,
     <<"s", "e", "t">>,
     <<"h", "a", "s">>}

\* The identifier rule of set (regexp.sanitize_var_name): not empty, only
\* ASCII letters, digits and the underscore, no digit first.
IsIdentifier(name) ==
    /\ name # <<>>
    /\ \A i \in 1..Len(name) : name[i] \in Letters \cup Digits \cup {"_"}
    /\ name[1] \notin Digits

(***************************************************************************)
(* The item as a record [attrs, variables, comments]: attrs is the         *)
(* instance's attribute dictionary, variables is self.variables.           *)
(***************************************************************************)
EmptyMap == [x \in {} |-> NoneV]
Put(f, k, v) == [x \in DOMAIN f \cup {k} |-> IF x = k THEN v ELSE f[x]]
Del(f, k) == [x \in DOMAIN f \ {k} |-> f[x]]

\* The characters of val as the triple-quoted literal of set's statement
\* reads them back: every double quote was given a backslash, and the
\* literal's own escapes are decoded.  [ok, s]; ok is false when the
\* statement does not compile (the value ends inside an escape).
RECURSIVE PyLiteral(_)
PyLiteral(s) ==
    IF s = <<>> THEN [ok |-> TRUE, s |-> <<>>]
    ELSE IF s[1] # BS THEN
        LET r == PyLiteral(Tail(s))
        IN  [ok |-> r.ok, s |-> <<s[1]>> \o r.s]
    ELSE IF Len(s) = 1 THEN [ok |-> FALSE, s |-> <<>>]
    ELSE
        LET d == s[2]
            r == PyLiteral(Slice(s, 3, Len(s)))
            out == CASE d = "n" -> <<NL>>
                     [] d = "t" -> <<TAB>>
                     [] d = "r" -> <<CR>>
                     [] d = BS -> <<BS>>
                     [] d = SQ -> <<SQ>>
                     [] d = NL -> <<>>
                     [] OTHER -> <<BS, d>>
        IN  IF d = DQ /\ Len(s) = 2 THEN [ok |-> FALSE, s |-> <<>>]
            ELSE [ok |-> r.ok, s |-> out \o r.s]

\* The precision of the "%f" conversion.
F_PRECISION == 6

\* float("%f" % val): val rounded to F_PRECISION decimals.
RoundF(n) ==
    LET u == Pow10(FracDigits - F_PRECISION)
        a == IF n < 0 THEN 0 - n ELSE n
        r == ((a + u \div 2) \div u) * u
    IN  IF n < 0 THEN 0 - r ELSE r

\* The value the attribute gets from the statement set executes, lit
\* being the literal a string is written as.
ExecStr(lit) == [ok |-> lit.ok, v |-> StrV(lit.s)]

ExecValue(val) ==
    IF val.t = "float" THEN [ok |-> TRUE, v |-> FloatV(RoundF(val.n))]
    ELSE IF val.t = "int" THEN [ok |-> TRUE, v |-> val]
    ELSE ExecStr(PyLiteral(val.s))

Out(I, err) == [I |-> I, err |-> err]

\* None in the place of a name: a text that no name is, since its one
\* element is no character.
NoName == <<"None">>

\* The end of item.set: the statement that wrote e is executed, then the
\* value v is recorded.
set_store(I, var, v, e) ==
    IF var \in PyKeywords \/ ~e.ok THEN Out(I, "SyntaxError")
    ELSE Out([I EXCEPT !.attrs = Put(I.attrs, var, e.v),
                       !.variables = Put(I.variables, var, v)], "")

\* item.set from the statement on: v is the coerced value.
set_exec(I, var, v) == set_store(I, var, v, ExecValue(v))

Mut_set_no_check(I, var, val) ==
    IF var = NoName THEN Out(I, "TypeError")
    ELSE set_exec(I, var, auto_type(val))

\* item.set.  var is a name, or NoName when from_string passes None.
set(I, var, val) ==
    IF var = NoName THEN Out(I, "TypeError")
    ELSE IF ~IsIdentifier(var) THEN Out(I, "InvalidNameError")
    ELSE set_exec(I, var, auto_type(val))

\* item.unset
unset(I, var) ==
    [I EXCEPT !.variables = IF var \in DOMAIN I.variables
                            THEN Del(I.variables, var) ELSE I.variables,
              !.attrs = IF var \in DOMAIN I.attrs
                        THEN Del(I.attrs, var) ELSE I.attrs]

\* hasattr(self, var)
hasattr(I, var) ==
    var \in DOMAIN I.attrs \/ var \in ClassAttrs \/ var \in ObjectFields

\* item.has.  var is a value: only a string can name a variable.
has(I, exp, var) ==
    var.t = "str" /\ (hasattr(I, var.s) \/ var.s \in DOMAIN exp)

\* eval("self.%s" % var), for a var with hasattr(self, var).
getattr(I, var) ==
    IF var \in DOMAIN I.attrs THEN I.attrs[var]
    ELSE IF var \in ClassAttrs THEN MethodV(var)
    ELSE IF var = N_description THEN StrV(<<"D", "e", "f", "a", "u", "l", "t", " ", "d", "e", "s", "c", "r", "i", "p", "t", "i", "o", "n">>)
    ELSE [t |-> "object", n |-> 0, s |-> var]

(***************************************************************************)
(* The definition format: from_string, to_string and what they call        *)
(***************************************************************************)

\* An exception whose message reads self.name.
Named(I, kind) == IF N_name \in DOMAIN I.attrs THEN kind ELSE "AttributeError"

\* shlex.split(s): the tokens of s by the shell's rules.  state is " "
\* between tokens, "a" inside a word, a quote character inside a quoted
\* stretch and the backslash after an escape; esc is the state an escape
\* returns to.  [ok, toks]; ok is false for a quotation never closed and for
\* a backslash that ends the text.
RECURSIVE Lex(_, _, _, _, _, _, _)
Lex(s, i, state, esc, token, quoted, toks) ==
    LET c == s[i]
        emit == IF token # <<>> \/ quoted THEN Append(toks, token) ELSE toks
    IN  IF i > Len(s) THEN
            IF state \in {DQ, SQ, BS} THEN [ok |-> FALSE, toks |-> <<>>]
            ELSE [ok |-> TRUE, toks |-> emit]
        ELSE IF state = " " THEN
            IF c \in Whitespace THEN Lex(s, i + 1, " ", esc, <<>>, FALSE, emit)
            ELSE IF c = BS THEN Lex(s, i + 1, BS, "a", token, quoted, toks)
            ELSE IF c \in {DQ, SQ} THEN Lex(s, i + 1, c, esc, token, quoted, toks)
            ELSE Lex(s, i + 1, "a", esc, <<c>>, quoted, toks)
        ELSE IF state \in {DQ, SQ} THEN
            IF c = state THEN Lex(s, i + 1, "a", esc, token, TRUE, toks)
            ELSE IF c = BS /\ state = DQ THEN Lex(s, i + 1, BS, state, token, TRUE, toks)
            ELSE Lex(s, i + 1, state, esc, Append(token, c), TRUE, toks)
        ELSE IF state = BS THEN
            IF esc \in {DQ, SQ} /\ c # BS /\ c # esc
            THEN Lex(s, i + 1, esc, esc, token \o <<BS, c>>, quoted, toks)
            ELSE Lex(s, i + 1, esc, esc, Append(token, c), quoted, toks)
        ELSE
            IF c \in Whitespace THEN Lex(s, i + 1, " ", esc, <<>>, FALSE, emit)
            ELSE IF c \in {DQ, SQ} THEN Lex(s, i + 1, c, esc, token, quoted, toks)
            ELSE IF c = BS THEN Lex(s, i + 1, BS, "a", token, quoted, toks)
            ELSE Lex(s, i + 1, "a", esc, Append(token, c), quoted, toks)

shlex_split(s) == Lex(s, 1, " ", "a", <<>>, FALSE, <<>>)

\* item.parse_comment: [is, I]
parse_comment_stripped(I, l) ==
    IF Len(l) > 0 /\ l[1] = "#"
    THEN [is |-> TRUE, I |-> [I EXCEPT !.comments = Append(@, Tail(l))]]
    ELSE IF Len(l) > 1 /\ SubSeq(l, 1, 2) = <<"/", "/">>
    THEN [is |-> TRUE, I |-> [I EXCEPT !.comments = Append(@, Tail(Tail(l)))]]
    ELSE [is |-> FALSE, I |-> I]

parse_comment(I, line) == parse_comment_stripped(I, Strip(line))

\* self.set(var, val) as a method of the item calls it.
CallSet(I, var, val) ==
    IF N_set \in DOMAIN I.attrs THEN Out(I, "TypeError") ELSE set(I, var, val)

\* item.parse_variable once the line is known to be no comment: l is
\* what shlex.split made of it.
parse_tokens(I, l) ==
    IF ~l.ok THEN Out(I, Named(I, "ScriptSyntaxError"))
    ELSE IF Len(l.toks) > 0 /\ l.toks[1] = N_set THEN
        IF Len(l.toks) # 3 THEN Out(I, "ScriptSyntaxError")
        ELSE CallSet(I, l.toks[2], StrV(l.toks[3]))
    ELSE Out(I, "")

\* item.parse_variable after its call of parse_comment, which gave c.
parse_line(I, line, c) ==
    IF c.is THEN Out(c.I, "") ELSE parse_tokens(I, shlex_split(Strip(line)))

\* item.parse_variable
parse_variable(I, line) == parse_line(I, line, parse_comment(I, line))

\* The locals of from_string between two lines: the block that is open
\* (var, or open = FALSE for None), the text collected for it (bound =
\* FALSE while textblock_val was never assigned) and strip_tab.
Locals(I) ==
    [I |-> I, err |-> "", open |-> FALSE, var |-> <<>>,
     bound |-> FALSE, val |-> <<>>, strip_tab |-> FALSE]

\* The locals after a call that left r: the item, and the exception that
\* ends the loop.
Left(st, r) == [st EXCEPT !.I = r.I, !.err = r.err]

\* The "__end__" line: the block collected is set.
from_string_end(st) ==
    IF ~st.bound THEN [st EXCEPT !.err = "UnboundLocalError"]
    ELSE [Left(st, CallSet(st.I, IF st.open THEN st.var ELSE NoName, StrV(st.val)))
            EXCEPT !.open = FALSE]

\* The "__<name>__" line: a block opens (an empty name opens none).
from_string_begin(st, line, name) ==
    [st EXCEPT !.open = (name # <<>>),
               !.var = name,
               !.bound = (@ \/ name # <<>>),
               !.val = IF name # <<>> THEN <<>> ELSE @,
               !.strip_tab = (line[1] = TAB)]

\* The name a "__<name>__" line gives its block: a reserved word gets an
\* underscore in front.
BlockName(inner) == IF inner \in reserved_words THEN <<"_">> \o inner ELSE inner

\* One pass of the loop of from_string, line_stripped being line.strip().
from_string_pass(st, line, line_stripped) ==
    IF line_stripped = <<"_", "_", "e", "n", "d", "_", "_">> THEN from_string_end(st)
    ELSE IF Len(line_stripped) >= 2 /\ SubSeq(line_stripped, 1, 2) = <<"_", "_">>
            /\ SubSeq(line_stripped, Len(line_stripped) - 1, Len(line_stripped)) = <<"_", "_">> THEN
        from_string_begin(st, line, BlockName(Slice(line_stripped, 3, Len(line_stripped) - 2)))
    ELSE IF st.open THEN
        [st EXCEPT !.val = @ \o (IF st.strip_tab THEN Slice(line, 2, Len(line)) ELSE line)
                          \o <<NL>>]
    ELSE Left(st, parse_variable(st.I, line))

from_string_line(st, line) == from_string_pass(st, line, Strip(line))

RECURSIVE from_string_loop(_, _)
from_string_loop(st, lines) ==
    IF lines = <<>> \/ st.err # "" THEN st
    ELSE from_string_loop(from_string_line(st, Head(lines)), Tail(lines))

\* item.from_string
from_string(I, string) ==
    Left(Out(I, ""),
         from_string_loop(Locals([I EXCEPT !.variables = EmptyMap]),
                          SplitLines(string)))

\* s with the tabs and newlines at its end removed.
RECURSIVE RStripTabNl(_)
RStripTabNl(s) ==
    IF s # <<>> /\ s[Len(s)] \in {TAB, NL} THEN RStripTabNl(SubSeq(s, 1, Len(s) - 1))
    ELSE s

\* item.variable_to_string
variable_to_string(I, var) ==
    LET val == I.variables[var]
        lines == SplitLines(val.s)
        body == Flatten([k \in 1..Len(lines) |-> <<TAB>> \o lines[k] \o <<NL>>])
    IN  IF val.t = "str" /\ (\E k \in 1..Len(val.s) : val.s[k] \in {NL, DQ})
        THEN RStripTabNl(<<"_", "_">> \o var \o <<"_", "_", NL>> \o body)
             \o <<NL, TAB>> \o <<"_", "_", "e", "n", "d", "_", "_">> \o <<NL>>
        ELSE <<"s", "e", "t">> \o <<" ">> \o var \o <<" ", DQ>> \o str(val) \o <<DQ, NL>>

\* The keys of a map in the order the map is iterated.
RECURSIVE KeysOf(_)
KeysOf(S) ==
    IF S = {} THEN <<>>
    ELSE LET k == CHOOSE x \in S : TRUE IN <<k>> \o KeysOf(S \ {k})

\* item.to_string(): [ok, s]; ok is false when the item has lost a field
\* that the header reads.
to_string(I) ==
    LET keys == KeysOf(DOMAIN I.variables)
    IN  IF ~({N_name, N_item_type} \subseteq DOMAIN I.attrs)
        THEN [ok |-> FALSE, s |-> <<>>]
        ELSE [ok |-> TRUE,
              s |-> <<"d", "e", "f", "i", "n", "e">> \o <<" ">> \o str(I.attrs[N_item_type]) \o <<" ">>
                    \o str(I.attrs[N_name]) \o <<NL>>
                    \o Flatten([k \in 1..Len(I.comments) |->
                          <<TAB, "#", " ">> \o Strip(I.comments[k]) \o <<NL>>])
                    \o Flatten([k \in 1..Len(keys) |->
                          <<TAB>> \o variable_to_string(I, keys[k])])]

(***************************************************************************)
(* get and eval_text.  The two call each other, so a call in flight is a   *)
(* stack of frames: the frame of an eval_text holds its text, the variable *)
(* of its current match and its place in the loop; the frame of a get      *)
(* waits for the eval_text it called.                                      *)
(***************************************************************************)

\* The item of the current state.
Item == [attrs |-> attrs, variables |-> variables, comments |-> comments]

\* The recursion limit of the interpreter, in frames of get and eval_text.
RecursionLimit == 7

\* regexp.find_variable.search(text): the leftmost "[", one or more
\* characters that are no bracket, and "]".  [found, from, to].
FindVariable(text) ==
    LET IsMatch(i, j) ==
            /\ text[i] = "[" /\ text[j] = "]" /\ j > i + 1
            /\ \A k \in (i + 1)..(j - 1) : text[k] \notin {"[", "]"}
        starts == {i \in 1..Len(text) : \E j \in i..Len(text) : IsMatch(i, j)}
    IN  IF starts = {} THEN [found |-> FALSE, from |-> 0, to |-> 0]
        ELSE LET i == CHOOSE a \in starts : \A b \in starts : a <= b
             IN  [found |-> TRUE, from |-> i,
                  to |-> CHOOSE j \in i..Len(text) : IsMatch(i, j)]

GetFrame(var) ==
    [fn |-> "get", var |-> var, val |-> NoneV, soft |-> FALSE, pc |-> "eval_text"]

EvalFrame(val, soft) ==
    [fn |-> "eval_text", var |-> <<>>, val |-> val, soft |-> soft, pc |-> "search"]

Mut_Lookup_any_lock(I, exp, lock, var) ==
    IF lock # NoneV THEN Err("RecursionError")
    ELSE IF hasattr(I, var) THEN getattr(I, var)
    ELSE IF var \in DOMAIN exp THEN exp[var]
    ELSE Err("UndefinedVariableError")

\* item.get up to its decision to evaluate: the exception it raises, or the
\* value it found.  The messages of its exceptions read self.name.
Lookup(I, exp, lock, var) ==
    IF StrV(var) = lock THEN
        IF N_name \in DOMAIN I.attrs THEN Err("RecursionError") ELSE Err("AttributeError")
    ELSE IF hasattr(I, var) THEN getattr(I, var)
    ELSE IF var \in DOMAIN exp THEN exp[var]
    ELSE IF N_name \in DOMAIN I.attrs THEN Err("UndefinedVariableError")
    ELSE Err("AttributeError")

\* An exception leaves get and eval_text through every frame: neither
\* catches anything, and the lock keeps the value it had.
Raise(kind) ==
    /\ stack' = <<>>
    /\ result' = Err(kind)
    /\ UNCHANGED <<attrs, variables, comments, get_lock, experiment, last>>

\* text.replace(m.group(0), str(val), 1)
Replace(text, m, val) ==
    SubSeq(text, 1, m.from - 1) \o str(val) \o SubSeq(text, m.to + 1, Len(text))

\* The eval_text on top of the stack returns v.  A get that called it
\* clears the lock and returns v in its turn, to the eval_text that called
\* it (which puts v in the place of its match and scans again) or to the
\* caller of the outermost call.
Return(v) ==
    /\ UNCHANGED <<attrs, variables, comments, experiment, last>>
    /\ IF Len(stack) = 1 THEN
            /\ stack' = <<>> /\ result' = v
            /\ UNCHANGED get_lock
       ELSE IF Len(stack) = 2 THEN
            /\ get_lock' = NoneV
            /\ stack' = <<>> /\ result' = v
       ELSE LET caller == stack[Len(stack) - 2]
                m == FindVariable(caller.val.s)
            IN  /\ get_lock' = NoneV
                /\ stack' = Append(SubSeq(stack, 1, Len(stack) - 3),
                        [caller EXCEPT !.val = StrV(Replace(caller.val.s, m, v)),
                                       !.pc = "search"])
                /\ UNCHANGED result

\* eval_text at the head of its loop: a value that is no string, or a text
\* with no reference left, is returned through auto_type.
Search ==
    /\ UNCHANGED <<bytecode, platform>>
    /\ stack # <<>>
    /\ LET top == stack[Len(stack)]
       IN  /\ top.fn = "eval_text" /\ top.pc = "search"
           /\ IF top.val.t # "str" THEN Return(auto_type(top.val))
              ELSE LET m == FindVariable(top.val.s)
                   IN  IF ~m.found THEN Return(auto_type(top.val))
                       ELSE /\ stack' = [stack EXCEPT ![Len(stack)] =
                                   [top EXCEPT !.var = SubSeq(top.val.s, m.from + 1, m.to - 1),
                                               !.pc = "test"]]
                            /\ UNCHANGED <<attrs, variables, comments, get_lock,
                                           experiment, last, result>>

\* eval_text with a match: it calls get, unless soft_ignore is set and the
\* name is not there; then it goes round the loop with the text as it was.
Test ==
    /\ UNCHANGED <<bytecode, platform>>
    /\ stack # <<>>
    /\ LET top == stack[Len(stack)]
           v == Lookup(Item, experiment, get_lock, top.var)
       IN  /\ top.fn = "eval_text" /\ top.pc = "test"
           /\ IF top.soft /\ ~has(Item, experiment, StrV(top.var)) THEN
                  /\ stack' = [stack EXCEPT ![Len(stack)] = [top EXCEPT !.pc = "search"]]
                  /\ UNCHANGED <<attrs, variables, comments, get_lock,
                                 experiment, last, result>>
              ELSE IF N_get \in DOMAIN attrs THEN Raise("TypeError")
              ELSE IF IsErr(v) THEN Raise(ErrKind(v))
              ELSE IF Len(stack) + 2 > RecursionLimit THEN Raise("RuntimeError")
              ELSE /\ get_lock' = StrV(top.var)
                   /\ stack' = [stack EXCEPT ![Len(stack)] = [top EXCEPT !.pc = "get"]]
                                \o <<GetFrame(top.var), EvalFrame(v, FALSE)>>
                   /\ UNCHANGED <<attrs, variables, comments, experiment, last, result>>

(***************************************************************************)
(* The calls a host makes on an item at rest (no call in flight).  last is *)
(* the outermost call made last and result what it returned or raised.     *)
(* Of a call in flight, last is the call and result still the result of    *)
(* the call before it.                                                     *)
(***************************************************************************)
\* What the call before this one was, as far as a later call can depend on
\* it: the name of a get(name, _eval=True) that raised the recursion error.
After ==
    IF last.op = "get" /\ last.flag /\ result = Err("RecursionError")
    THEN last.var ELSE NoneV

Call(op, var, val, flag) ==
    [op |-> op, var |-> var, val |-> val, flag |-> flag, after |-> After]

Idle == stack = <<>>

\* A method of the item can be called while no attribute of the instance
\* has taken its name.
Callable(m) == m \notin DOMAIN attrs

Done(r) == IF r.err = "" THEN NoneV ELSE Err(r.err)

\* The call ends as r says: the item it leaves, and None or the exception.
Returns(r) ==
    /\ attrs' = r.I.attrs
    /\ variables' = r.I.variables
    /\ comments' = r.I.comments
    /\ result' = Done(r)

\* item.set(var, val)
Set(var, val) ==
    /\ UNCHANGED <<bytecode, platform>>
    /\ Idle
    /\ last' = Call("set", StrV(var), val, FALSE)
    /\ UNCHANGED <<get_lock, experiment, stack>>
    /\ IF ~Callable(N_set) THEN
            /\ result' = Err("TypeError")
            /\ UNCHANGED <<attrs, variables, comments>>
       ELSE Returns(set(Item, var, val))

\* item.unset(var)
Unset(var) ==
    /\ UNCHANGED <<bytecode, platform>>
    /\ Idle
    /\ last' = Call("unset", StrV(var), NoneV, FALSE)
    /\ UNCHANGED <<get_lock, experiment, stack, comments>>
    /\ LET I == unset(Item, var)
       IN  /\ attrs' = I.attrs
           /\ variables' = I.variables
           /\ result' = NoneV

\* experiment.set(var, val): the experiment-level store records the coerced
\* value under a valid name.
ExpSet(var, val) ==
    /\ UNCHANGED <<bytecode, platform>>
    /\ Idle
    /\ last' = Call("experiment.set", StrV(var), val, FALSE)
    /\ UNCHANGED <<attrs, variables, comments, get_lock, stack>>
    /\ IF IsIdentifier(var)
       THEN experiment' = Put(experiment, var, auto_type(val)) /\ result' = NoneV
       ELSE experiment' = experiment /\ result' = Err("InvalidNameError")

\* experiment.unset(var)
ExpUnset(var) ==
    /\ UNCHANGED <<bytecode, platform>>
    /\ Idle
    /\ last' = Call("experiment.unset", StrV(var), NoneV, FALSE)
    /\ UNCHANGED <<attrs, variables, comments, get_lock, stack>>
    /\ experiment' = IF var \in DOMAIN experiment THEN Del(experiment, var) ELSE experiment
    /\ result' = NoneV

\* item.has(var)
Has(var) ==
    /\ UNCHANGED <<bytecode, platform>>
    /\ Idle
    /\ last' = Call("has", var, NoneV, FALSE)
    /\ result' = BoolV(has(Item, experiment, var))
    /\ UNCHANGED <<attrs, variables, comments, get_lock, experiment, stack>>

\* item.get(var, _eval): without _eval the value found is the result; with
\* it the lock is taken and eval_text is called on the value.
Get(var, eval) ==
    /\ UNCHANGED <<bytecode, platform>>
    /\ Idle
    /\ last' = Call("get", StrV(var), NoneV, eval)
    /\ UNCHANGED <<attrs, variables, comments, experiment>>
    /\ LET v == Lookup(Item, experiment, get_lock, var)
       IN  IF ~Callable(N_get) THEN
               result' = Err("TypeError") /\ UNCHANGED <<get_lock, stack>>
           ELSE IF IsErr(v) \/ ~eval THEN
               result' = v /\ UNCHANGED <<get_lock, stack>>
           ELSE /\ get_lock' = StrV(var)
                /\ stack' = <<GetFrame(var), EvalFrame(v, FALSE)>>
                /\ UNCHANGED result

\* item.eval_text(text, soft_ignore = soft)
EvalText(text, soft) ==
    /\ UNCHANGED <<bytecode, platform>>
    /\ Idle
    /\ last' = Call("eval_text", NoneV, text, soft)
    /\ stack' = <<EvalFrame(text, soft)>>
    /\ UNCHANGED <<attrs, variables, comments, get_lock, experiment, result>>

\* item.__init__(name, experiment): the item as it is constructed.
NewItem ==
    [attrs |-> [k \in {N_name, N_count, N_item_type, N_round_decimals} |->
                  CASE k = N_name -> StrV(<<"i">>)
                    [] k = N_count -> IntV(0)
                    [] k = N_item_type -> StrV(N_item)
                    [] k = N_round_decimals -> IntV(2)],
     variables |-> EmptyMap,
     comments |-> <<>>]

\* The number of comments an item is given, at most.
MaxComments == 2

\* Returns(r), for an item of MaxComments comments at most.
ReturnsBounded(r) == Len(r.I.comments) <= MaxComments /\ Returns(r)

\* item.from_string(string)
Parse(string) ==
    /\ UNCHANGED <<bytecode, platform>>
    /\ Idle
    /\ last' = Call("from_string", NoneV, StrV(string), FALSE)
    /\ UNCHANGED <<get_lock, experiment, stack>>
    /\ IF ~Callable(N_from_string) THEN
            /\ result' = Err("TypeError")
            /\ UNCHANGED <<attrs, variables, comments>>
       ELSE ReturnsBounded(from_string(Item, string))

(***************************************************************************)
(* The names, values and texts the calls are made with                     *)
(***************************************************************************)
X == <<"x">>
Y == <<"y">>
Z == <<"z">>
BadName == <<"9", "x">>

RefX == <<"[", "x", "]">>
RefY == <<"[", "y", "]">>
RefYX == <<"[", "y", "]", " ", "[", "x", "]">>
RefXZ == <<"[", "x", "]", " ", "[", "z", "]">>

\* Names given to set and unset of the item.
SetNames == {X, Y, BadName}

\* Names given to set and unset of the experiment.
ExpNames == {Y}

\* Names asked for with has and get: variables, a name never set, a field
\* of the item and one of its operations.
QueryNames == {X, Y, Z, N_name, N_get}

SetValues ==
    {IntV(5), StrV(<<"a">>), StrV(RefX), StrV(RefY), StrV(RefYX),
     StrV(<<"0", ".", "1", "2", "3", "4", "5", "6", "7">>), BoolV(TRUE)}

ExpValues == {IntV(7), StrV(RefX)}

EvalTexts == {StrV(RefY), StrV(RefXZ), IntV(5)}

Init ==
    /\ attrs = NewItem.attrs
    /\ variables = EmptyMap
    /\ comments = <<>>
    /\ get_lock = NoneV
    /\ experiment = EmptyMap
    /\ stack = <<>>
    /\ last = [op |-> "init", var |-> NoneV, val |-> NoneV, flag |-> FALSE,
               after |-> NoneV]
    /\ result = NoneV
    /\ bytecode = NoneV
    /\ platform = [wide |-> TRUE, linesep |-> <<10>>]

Next ==
    \/ \E var \in SetNames, val \in SetValues : Set(var, val)
    \/ \E var \in SetNames : Unset(var)
    \/ \E var \in ExpNames, val \in ExpValues : ExpSet(var, val)
    \/ \E var \in ExpNames : ExpUnset(var)
    \/ \E var \in QueryNames : Has(StrV(var))
    \/ Has(IntV(5))
    \/ \E var \in QueryNames, eval \in BOOLEAN : Get(var, eval)
    \/ \E text \in EvalTexts, soft \in BOOLEAN : EvalText(text, soft)
    \/ Search
    \/ Test

Spec == Init /\ [][Next]_vars

(***************************************************************************)
(* A smaller machine for the one call eval_text(text, soft_ignore=True):   *)
(* the code, once called, goes on running.                                 *)
(***************************************************************************)
NextSoft ==
    \/ \E var \in {X, Y}, val \in {IntV(5), StrV(RefY)} : Set(var, val)
    \/ \E var \in {X, Y} : Unset(var)
    \/ \E text \in EvalTexts : EvalText(text, TRUE)
    \/ Search
    \/ Test

SoftSpec == Init /\ [][NextSoft]_vars /\ WF_vars(Search) /\ WF_vars(Test)

(***************************************************************************)
(* The machine of the definition format: set, unset and from_string.       *)
(***************************************************************************)
Quoted == <<"a", DQ, "b">>
TwoLines == <<"a", NL, "b">>

DefValues == {IntV(5), StrV(<<"a">>), StrV(<<"0", ".", "5">>), StrV(Quoted), StrV(TwoLines)}

\* A comment and a variable.
TextPlain == <<"#", " ", "c", NL, "s", "e", "t", " ", "x", " ", DQ, "5", DQ, NL>>
\* A block as to_string writes it.
TextBlock == <<TAB, "_", "_", "y", "_", "_", NL, TAB, "a", DQ, "b", NL, TAB, "_", "_", "e", "n", "d", "_", "_", NL>>
\* A valid line, a line with an invalid name, and a line never reached.
TextBadName == <<"s", "e", "t", " ", "y", " ", DQ, "a", DQ, NL, "s", "e", "t", " ", "9", "x", " ", "1", NL, "s", "e", "t", " ", "x", " ", "2">>
\* A set with one token too few.
TextShort == <<"#", "d", NL, "s", "e", "t", " ", "x">>

ParseTexts == {TextPlain, TextBlock, TextBadName, TextShort}

NextDef ==
    \/ \E var \in SetNames, val \in DefValues : Set(var, val)
    \/ \E var \in SetNames : Unset(var)
    \/ \E text \in ParseTexts : Parse(text)

DefSpec == Init /\ [][NextDef]_vars

(***************************************************************************)
(* The machine of the store with unset called on any name, the names of    *)
(* fields of the item included.                                            *)
(***************************************************************************)
UnsetNames == {X, Z, N_name, N_item_type}

NextField ==
    \/ \E var \in {X, Y}, val \in {IntV(5), StrV(<<"a">>), StrV(RefX)} : Set(var, val)
    \/ \E var \in UnsetNames : Unset(var)
    \/ \E var \in ExpNames, val \in ExpValues : ExpSet(var, val)
    \/ \E var \in QueryNames : Has(StrV(var))
    \/ \E var \in QueryNames : Get(var, FALSE)

FieldSpec == Init /\ [][NextField]_vars

(***************************************************************************)
(* What the item holds for a name on the lookup path of get, and what a    *)
(* value depends on through its references.                                *)
(***************************************************************************)
IsHeld(n) == hasattr(Item, n) \/ n \in DOMAIN experiment

Held(n) == IF hasattr(Item, n) THEN getattr(Item, n) ELSE experiment[n]

\* The names a text refers to.
RefsOf(v) ==
    IF v.t # "str" THEN {}
    ELSE {SubSeq(v.s, p[1] + 1, p[2] - 1) : p \in
            {q \in (1..Len(v.s)) \X (1..Len(v.s)) :
                /\ v.s[q[1]] = "[" /\ v.s[q[2]] = "]" /\ q[2] > q[1] + 1
                /\ \A k \in (q[1] + 1)..(q[2] - 1) : v.s[k] \notin {"[", "]"}}}

RECURSIVE ReachFrom(_, _)
ReachFrom(S, fuel) ==
    LET T == S \cup UNION {RefsOf(Held(n)) : n \in {m \in S : IsHeld(m)}}
    IN  IF fuel = 0 \/ T = S THEN S ELSE ReachFrom(T, fuel - 1)

\* The names the value v depends on, directly or through other values.
Needs(v) == ReachFrom(RefsOf(v), Cardinality(DOMAIN attrs \cup DOMAIN experiment) + 1)

\* n is defined in terms of itself, directly or through a chain.
SelfReferential(n) == IsHeld(n) /\ n \in Needs(Held(n))

\* Every name v depends on is held and none is defined in terms of itself.
WellFounded(v) == \A n \in Needs(v) : IsHeld(n) /\ ~SelfReferential(n)

\* v with every reference replaced by the text of its substituted value,
\* coerced; for a well-founded v.
RECURSIVE Substituted(_)
Substituted(v) ==
    IF v.t # "str" THEN auto_type(v)
    ELSE LET m == FindVariable(v.s)
         IN  IF ~m.found THEN auto_type(v)
             ELSE Substituted(StrV(Replace(v.s, m,
                      Substituted(Held(SubSeq(v.s, m.from + 1, m.to - 1))))))

\* C1: when an outermost get(name, _eval=True) has returned or raised, the
\* item holds no guarded name.
C1_GuardClearedOnExit ==
    (Idle /\ last.op = "get" /\ last.flag) => get_lock = NoneV

\* The value of n is exactly a reference to n.
DirectSelfRef(n) == IsHeld(n) /\ Held(n) = StrV(<<"[">> \o n \o <<"]">>)

\* C2: with x defined as "[x]", get(x) raises the recursion error; and the
\* get that follows it, of another name the item holds whose value needs no
\* self-referential name, returns that value (substituted when _eval is
\* set).
C2_RecursionThenUnrelatedGet ==
    /\ (Idle /\ last.op = "get" /\ last.flag /\ DirectSelfRef(last.var.s))
          => result = Err("RecursionError")
    /\ (/\ Idle /\ last.op = "get"
        /\ last.after # NoneV /\ DirectSelfRef(last.after.s)
        /\ last.var # last.after /\ IsHeld(last.var.s)
        /\ WellFounded(Held(last.var.s)))
          => result = IF last.flag THEN Substituted(Held(last.var.s))
                      ELSE Held(last.var.s)

\* A get of x = "[x]" has just raised the recursion error, and the get of
\* another, held name after it has returned.
C2_Witness ==
    /\ Idle /\ last.op = "get" /\ last.flag
    /\ last.after = StrV(X) /\ DirectSelfRef(X)
    /\ last.var = StrV(Y) /\ Y \in DOMAIN variables
    /\ result = IntV(5)

\* C3: a get(name, _eval=True) of a name defined in terms of itself,
\* directly or through a chain of held names, ends with the recursion error.
C3_CyclicGetRaisesRecursionError ==
    (/\ Idle /\ last.op = "get" /\ last.flag
     /\ SelfReferential(last.var.s)
     /\ \A n \in Needs(Held(last.var.s)) : IsHeld(n))
        => result = Err("RecursionError")

\* C4: an eval_text(text, soft_ignore=True) that was called returns.
C4_SoftIgnoreReturns ==
    (last.op = "eval_text" /\ last.flag /\ ~Idle) ~> Idle

\* C5: with every name the text depends on held and none of them cyclic,
\* eval_text(text) returns the coerced text with every reference replaced
\* by the text of its substituted value.
C5_EvalTextSubstitutes ==
    (Idle /\ last.op = "eval_text" /\ ~last.flag /\ WellFounded(last.val))
        => result = Substituted(last.val)

\* C7: has(name) is true exactly for a string that is a key of the item's
\* variables or of the experiment-level store.
C7_HasIffStored ==
    (Idle /\ last.op = "has")
        => result = BoolV(/\ last.var.t = "str"
                          /\ \/ last.var.s \in DOMAIN variables
                             \/ last.var.s \in DOMAIN experiment)

\* C8: get(name, _eval=False) returns the value recorded in the item's
\* variables, else the value of the experiment-level store, and raises the
\* undefined-variable error when neither holds the name.
C8_GetReturnsStored ==
    (Idle /\ last.op = "get" /\ ~last.flag)
        => result = IF last.var.s \in DOMAIN variables THEN variables[last.var.s]
                    ELSE IF last.var.s \in DOMAIN experiment THEN experiment[last.var.s]
                    ELSE Err("UndefinedVariableError")

\* C6: the text to_string writes for the item, parsed into a new item,
\* gives the variables and the comments of the item.
C6_RoundTrip ==
    Idle => LET t == to_string(Item)
                r == from_string(NewItem, t.s)
            IN  /\ t.ok /\ r.err = ""
                /\ r.I.variables = variables
                /\ r.I.comments = comments

\* C9: an unset of a name that is no key of the item's variables changes
\* nothing of the item: its variables, its fields and other attributes (so
\* what has and get answer), its comments and its lock.
C9_UnsetAbsentChangesNothing ==
    [][(Idle /\ last'.op = "unset" /\ last'.var.s \notin DOMAIN variables)
          => /\ result' = NoneV
             /\ UNCHANGED <<attrs, variables, comments, get_lock>>]_vars

\* Every key of the item's variables is an identifier.
KeysAreIdentifiers == \A k \in DOMAIN variables : IsIdentifier(k)

\* C10: every key of the item's variables is an identifier, whatever set,
\* unset and from_string did or failed to do; and a set with a name that
\* is none raises the invalid-name error and leaves the variables as they
\* were.
C10_KeysStayIdentifiers ==
    /\ []KeysAreIdentifiers
    /\ [][(Idle /\ last'.op = "set" /\ ~IsIdentifier(last'.var.s))
             => /\ result' = Err("InvalidNameError")
                /\ variables' = variables]_vars

\* A set with an invalid name was refused on an item that holds variables,
\* after a from_string that failed half way.
C10_Witness ==
    /\ Idle /\ last.op = "set" /\ last.var = StrV(BadName)
    /\ result = Err("InvalidNameError")
    /\ DOMAIN variables = {Y} /\ X \in DOMAIN attrs

(***************************************************************************)
(* Conditions: compile_cond                                                *)
(***************************************************************************)
LowerCase == <<"a", "b", "c", "d", "e", "f", "g", "h", "i", "j", "k", "l", "m", "n", "o", "p", "q", "r", "s", "t", "u", "v", "w", "x", "y", "z">>

UpperCase == <<"A", "B", "C", "D", "E", "F", "G", "H", "I", "J", "K", "L", "M", "N", "O", "P", "Q", "R", "S", "T", "U", "V", "W", "X", "Y", "Z">>

\* ch.lower()
LowerChar(c) ==
    IF \E i \in 1..26 : UpperCase[i] = c
    THEN LowerCase[CHOOSE i \in 1..26 : UpperCase[i] = c] ELSE c

\* ch.upper()
UpperChar(c) ==
    IF \E i \in 1..26 : LowerCase[i] = c
    THEN UpperCase[CHOOSE i \in 1..26 : LowerCase[i] = c] ELSE c

\* word.lower()
Lower(word) == [i \in 1..Len(word) |-> LowerChar(word[i])]

\* word.capitalize()
Capitalize(word) ==
    [i \in 1..Len(word) |-> IF i = 1 THEN UpperChar(word[i]) ELSE LowerChar(word[i])]

operators ==
    {<<"!", "=">>, <<"=", "=">>, <<"=">>, <<"<">>, <<">">>, <<">", "=">>,
     <<"<", "=">>, <<"+">>, <<"-">>, <<"(">>, <<")">>, <<"/">>, <<"*">>,
     <<"%">>, <<"~">>, <<"*", "*">>, <<"^">>}

op_chars == {"!", "=", "<", ">", "+", "-", "(", ")", "/", "*", "%", "~", "^"}

whitespace == {" ", TAB, NL}

keywords == {<<"a", "n", "d">>, <<"o", "r">>, <<"i", "s">>, <<"n", "o", "t">>, <<"t", "r", "u", "e">>, <<"f", "a", "l", "s", "e">>}

capitalize == {<<"t", "r", "u", "e">>, <<"f", "a", "l", "s", "e">>, <<"n", "o", "n", "e">>}

\* The least of a set of numbers that is not empty.
Least(S) == CHOOSE i \in S : \A j \in S : i <= j

\* The positions of cond where the repair loop finds a space missing: an
\* operator character whose neighbour on one side is neither an operator
\* character nor whitespace.
Unspaced(cond) ==
    {i \in 1..Len(cond) :
        /\ cond[i] \in op_chars
        /\ \/ i # 1 /\ cond[i - 1] \notin op_chars \cup whitespace
           \/ i < Len(cond) /\ cond[i + 1] \notin op_chars \cup whitespace}

\* One pass of the repair loop that found position i: the space goes in
\* front of the character when it is missing there, behind it otherwise.
fix_space(cond, i) ==
    IF i # 1 /\ cond[i - 1] \notin op_chars \cup whitespace
    THEN SubSeq(cond, 1, i - 1) \o <<" ">> \o SubSeq(cond, i, Len(cond))
    ELSE SubSeq(cond, 1, i) \o <<" ">> \o SubSeq(cond, i + 1, Len(cond))

\* item.compile_cond, "Try to fix missing spaces".
RECURSIVE fix_spaces(_)
fix_spaces(cond) ==
    IF Unspaced(cond) = {} THEN cond
    ELSE fix_spaces(fix_space(cond, Least(Unspaced(cond))))

\* The text of the call that looks a variable up when the code is run.
GetCall(name) == <<"s", "t", "r", "(", "s", "e", "l", "f", ".", "g", "e", "t", "(", DQ>> \o name \o <<DQ, ")", ")">>

\* The code of a word that is no reference and not "=": lw is word.lower()
\* and i the number of words before it.
cond_word_lower(word, lw, i) ==
    IF lw = <<"a", "l", "w", "a", "y", "s">> THEN <<"T", "r", "u", "e">>
    ELSE IF lw = <<"n", "e", "v", "e", "r">> THEN <<"F", "a", "l", "s", "e">>
    ELSE IF lw \in operators \cup keywords THEN
        IF lw \in capitalize THEN Capitalize(word) ELSE lw
    ELSE IF i = 0 THEN GetCall(word)
    ELSE <<DQ>> \o word \o <<DQ>>

\* The code of one word of the condition.
cond_word(word, i) ==
    IF Len(word) > 2 /\ word[1] = "[" /\ word[Len(word)] = "]"
    THEN GetCall(SubSeq(word, 2, Len(word) - 1))
    ELSE IF word = <<"=">> THEN <<"=", "=">>
    ELSE cond_word_lower(word, Lower(word), i)

\* " ".join(l)
RECURSIVE Join(_)
Join(l) ==
    IF l = <<>> THEN <<>>
    ELSE IF Len(l) = 1 THEN l[1]
    ELSE l[1] \o <<" ">> \o Join(Tail(l))

\* item.compile_cond, "Rebuild the conditional string": the code of the
\* words shlex.split made.
cond_code(words) == Join([i \in 1..Len(words) |-> cond_word(words[i], i - 1)])

(***************************************************************************)
(* compile(code, "<conditional statement>", "eval"): whether the code is   *)
(* an expression of the language.  The code is cut into tokens, and the    *)
(* tokens are read by the rules of the expression grammar.  Modelled are   *)
(* the tokens the code of a condition is made of: names, string literals,  *)
(* the operators written with the operator characters, and the dot; a      *)
(* character outside these, outside a string literal, gives the token BAD  *)
(* (conditions whose code holds a number, a comma, a bracket or a colon    *)
(* outside its string literals are not among the conditions modelled, nor  *)
(* are those with the words if, else and lambda there).                    *)
(***************************************************************************)
IdentChars == Letters \cup Digits \cup {"_"}

\* The prefixes a string literal can have, in lower case.
StringPrefixes == {<<"u">>, <<"r">>, <<"b">>, <<"u", "r">>, <<"b", "r">>}

\* The operators of two characters made of the operator characters.
TwoCharOps ==
    {<<"!", "=">>, <<"=", "=">>, <<"<", "=">>, <<">", "=">>, <<"<", ">">>,
     <<"<", "<">>, <<">", ">">>, <<"*", "*">>, <<"/", "/">>,
     <<"+", "=">>, <<"-", "=">>, <<"*", "=">>, <<"/", "=">>, <<"%", "=">>,
     <<"^", "=">>}

\* The operators of three characters: augmented assignments, all of them.
ThreeCharOps ==
    {<<"*", "*", "=">>, <<"/", "/", "=">>, <<"<", "<", "=">>, <<">", ">", "=">>}

\* The token of an operator: what the grammar calls it.
OpToken(op) ==
    CASE op \in {<<"=", "=">>, <<"!", "=">>, <<"<", "=">>, <<">", "=">>,
                 <<"<", ">">>, <<"<">>, <<">">>} -> "COMPARE"
      [] op \in {<<"<", "<">>, <<">", ">">>, <<"/", "/">>, <<"/">>, <<"%">>,
                 <<"^">>} -> "BINARY"
      [] op \in {<<"+">>, <<"-">>} -> "SIGN"
      [] op = <<"~">> -> "INVERT"
      [] op = <<"*">> -> "STAR"
      [] op = <<"*", "*">> -> "POWER"
      [] op = <<"(">> -> "("
      [] op = <<")">> -> ")"
      [] op = <<".">> -> "."
      [] OTHER -> "BAD"

\* The token of a name.
NameToken(name) ==
    CASE name = <<"a", "n", "d">> -> "and"
      [] name = <<"o", "r">> -> "or"
      [] name = <<"n", "o", "t">> -> "not"
      [] name = <<"i", "s">> -> "is"
      [] name = <<"i", "n">> -> "in"
      [] name \in PyKeywords -> "BAD"
      [] OTHER -> "NAME"

\* The position of the last character of the name that starts at i.
NameEnd(code, i) ==
    IF \A j \in i..Len(code) : code[j] \in IdentChars THEN Len(code)
    ELSE Least({j \in i..Len(code) : code[j] \notin IdentChars}) - 1

\* The position where the string literal opened by the quote q ends, j
\* being the position to read next: the position of the closing quote
\* (the last of three for a literal opened by three), or 0 when the literal
\* does not end.  A backslash takes the character after it into the
\* literal; a literal opened by one quote ends with its line.
RECURSIVE StringEnd(_, _, _, _)
StringEnd(code, j, q, triple) ==
    IF j > Len(code) THEN 0
    ELSE IF code[j] = BS THEN StringEnd(code, j + 2, q, triple)
    ELSE IF code[j] = NL /\ ~triple THEN 0
    ELSE IF code[j] = q /\ ~triple THEN j
    ELSE IF code[j] = q /\ triple /\ j + 2 <= Len(code)
            /\ code[j + 1] = q /\ code[j + 2] = q THEN j + 2
    ELSE StringEnd(code, j + 1, q, triple)

\* The end of the string literal whose opening quote is at i.
LiteralEnd(code, i) ==
    IF i + 2 <= Len(code) /\ code[i + 1] = code[i] /\ code[i + 2] = code[i]
    THEN StringEnd(code, i + 3, code[i], TRUE)
    ELSE StringEnd(code, i + 1, code[i], FALSE)

\* The length of the operator that starts at i.
OpLength(code, i) ==
    IF i + 2 <= Len(code) /\ SubSeq(code, i, i + 2) \in ThreeCharOps THEN 3
    ELSE IF i + 1 <= Len(code) /\ SubSeq(code, i, i + 1) \in TwoCharOps THEN 2
    ELSE 1

RECURSIVE PyTokens(_, _, _)

\* The tokens from a string literal on, whose opening quote is at i and
\* which ends at e.
PyTokensString(code, e, toks) ==
    IF e = 0 THEN Append(toks, "BAD") ELSE PyTokens(code, e + 1, Append(toks, "STRING"))

\* The tokens from a name on, that starts at i and ends at e.
PyTokensName(code, i, e, toks) ==
    IF e < Len(code) /\ code[e + 1] \in {DQ, SQ}
       /\ Lower(SubSeq(code, i, e)) \in StringPrefixes
    THEN PyTokensString(code, LiteralEnd(code, e + 1), toks)
    ELSE PyTokens(code, e + 1, Append(toks, NameToken(SubSeq(code, i, e))))

\* The tokens from an operator on, that starts at i and has n characters.
PyTokensOp(code, i, n, toks) ==
    PyTokens(code, i + n, Append(toks, OpToken(SubSeq(code, i, i + n - 1))))

\* The tokens of code from position i on, after toks.
PyTokens(code, i, toks) ==
    IF i > Len(code) THEN toks
    ELSE IF code[i] \in {" ", TAB} THEN PyTokens(code, i + 1, toks)
    ELSE IF code[i] \in {DQ, SQ} THEN PyTokensString(code, LiteralEnd(code, i), toks)
    ELSE IF code[i] \in Letters \cup {"_"} THEN PyTokensName(code, i, NameEnd(code, i), toks)
    ELSE IF code[i] \in op_chars \cup {"."} THEN PyTokensOp(code, i, OpLength(code, i), toks)
    ELSE Append(toks, "BAD")

\* The reader of the tokens, where an operand is expected (the start of an
\* expression, or after an operator or an opening parenthesis) and where
\* one has been read.  not_test says that the operand may be a "not" test
\* (it may not inside a comparison or an arithmetic expression), is_not
\* that a "not" here completes the operator "is not", fresh that the token
\* before was an opening parenthesis, string that it was a string literal
\* (string literals side by side are one literal).  opened holds, for each
\* parenthesis open, whether it is the one of a call.
RECURSIVE PyOperand(_, _, _, _, _, _)
RECURSIVE PyOperator(_, _, _, _)

PyOperand(toks, i, not_test, is_not, fresh, opened) ==
    IF i > Len(toks) THEN FALSE
    ELSE CASE toks[i] = "not" ->
                IF not_test THEN PyOperand(toks, i + 1, TRUE, FALSE, FALSE, opened)
                ELSE is_not /\ PyOperand(toks, i + 1, FALSE, FALSE, FALSE, opened)
           [] toks[i] \in {"SIGN", "INVERT"} ->
                PyOperand(toks, i + 1, FALSE, FALSE, FALSE, opened)
           [] toks[i] = "(" ->
                PyOperand(toks, i + 1, TRUE, FALSE, TRUE, Append(opened, "paren"))
           [] toks[i] = ")" ->
                /\ fresh
                /\ PyOperator(toks, i + 1, FALSE, SubSeq(opened, 1, Len(opened) - 1))
           [] toks[i] \in {"STAR", "POWER"} ->
                /\ fresh /\ opened[Len(opened)] = "call"
                /\ PyOperand(toks, i + 1, TRUE, FALSE, FALSE, opened)
           [] toks[i] = "NAME" -> PyOperator(toks, i + 1, FALSE, opened)
           [] toks[i] = "STRING" -> PyOperator(toks, i + 1, TRUE, opened)
           [] OTHER -> FALSE

PyOperator(toks, i, string, opened) ==
    IF i > Len(toks) THEN opened = <<>>
    ELSE CASE toks[i] \in {"COMPARE", "in", "BINARY", "SIGN", "STAR", "POWER"} ->
                PyOperand(toks, i + 1, FALSE, FALSE, FALSE, opened)
           [] toks[i] = "is" -> PyOperand(toks, i + 1, FALSE, TRUE, FALSE, opened)
           [] toks[i] = "not" ->
                /\ i < Len(toks) /\ toks[i + 1] = "in"
                /\ PyOperand(toks, i + 2, FALSE, FALSE, FALSE, opened)
           [] toks[i] \in {"and", "or"} ->
                PyOperand(toks, i + 1, TRUE, FALSE, FALSE, opened)
           [] toks[i] = "(" ->
                PyOperand(toks, i + 1, TRUE, FALSE, TRUE, Append(opened, "call"))
           [] toks[i] = "." ->
                /\ i < Len(toks) /\ toks[i + 1] = "NAME"
                /\ PyOperator(toks, i + 2, FALSE, opened)
           [] toks[i] = "STRING" -> string /\ PyOperator(toks, i + 1, TRUE, opened)
           [] toks[i] = ")" ->
                /\ opened # <<>>
                /\ PyOperator(toks, i + 1, FALSE, SubSeq(opened, 1, Len(opened) - 1))
           [] OTHER -> FALSE

\* compile(code, "<conditional statement>", "eval") raises no error.
PyCompiles(code) == PyOperand(PyTokens(code, 1, <<>>), 1, TRUE, FALSE, FALSE, <<>>)

\* A compiled condition: the code object, known by its code.
CodeV(code) == [t |-> "code", n |-> 0, s |-> code]

\* An exception of a kind whose message quotes a text.
ErrAbout(kind, text) == [t |-> "error", n |-> 0, s |-> <<kind>> \o text]

\* The text the message of such an exception quotes.
ErrText(v) == Tail(v.s)

\* item.compile_cond from the call of compile on: cond is the condition as
\* the repair left it, and it is the one the message quotes.
compile_cond_code(I, cond, code) ==
    IF PyCompiles(code) THEN CodeV(code)
    ELSE ErrAbout(Named(I, "ConditionSyntaxError"), cond)

\* item.compile_cond from shlex.split on, which made l of cond.
compile_cond_words(I, cond, l) ==
    IF ~l.ok THEN Err("ValueError")
    ELSE compile_cond_code(I, cond, cond_code(l.toks))

\* item.compile_cond after the repair of the spaces.
compile_cond_fixed(I, cond) == compile_cond_words(I, cond, shlex_split(cond))

\* item.compile_cond, were it to resolve the references of the condition
\* when it compiles.
Mut_compile_cond_resolves(I, cond) ==
    IF \E w \in {shlex_split(fix_spaces(cond)).toks[i] :
                    i \in DOMAIN shlex_split(fix_spaces(cond)).toks} :
          /\ Len(w) > 2
          /\ Head(w) = "["
          /\ SubSeq(w, 2, Len(w) - 1) \notin DOMAIN I.attrs
    THEN Err("UndefinedVariableError")
    ELSE compile_cond_fixed(I, fix_spaces(cond))

\* item.compile_cond(cond), with bytecode = True
compile_cond(I, cond) == compile_cond_fixed(I, fix_spaces(cond))

(***************************************************************************)
(* eval(bytecode) by the holder of a compiled condition, with self the     *)
(* item.  Modelled is the code made of the calls of get, string literals   *)
(* without a space, quote or backslash in them, True, False, None, the     *)
(* comparison operators and and, or, not; any other code evaluates to the  *)
(* error "Unmodelled".  The strings compared by order are of printable     *)
(* ASCII characters.                                                       *)
(***************************************************************************)
\* The character U+0060, which no string of TLA+ can hold.
GRAVE == "grave"

Ascii ==
    <<" ", "!", DQ, "#", "$", "%", "&", SQ, "(", ")", "*", "+", ",",
    "-", ".", "/", "0", "1", "2", "3", "4", "5", "6", "7", "8", "9",
    ":", ";", "<", "=", ">", "?", "@", "A", "B", "C", "D", "E", "F",
    "G", "H", "I", "J", "K", "L", "M", "N", "O", "P", "Q", "R", "S",
    "T", "U", "V", "W", "X", "Y", "Z", "[", BS, "]", "^", "_", GRAVE, "a",
    "b", "c", "d", "e", "f", "g", "h", "i", "j", "k", "l", "m", "n",
    "o", "p", "q", "r", "s", "t", "u", "v", "w", "x", "y", "z", "{",
    "|", "}", "~">>

\* ord(c)
Ord(c) == 31 + CHOOSE i \in 1..Len(Ascii) : Ascii[i] = c

\* a < b for two strings.
RECURSIVE StrLess(_, _)
StrLess(a, b) ==
    IF b = <<>> THEN FALSE
    ELSE IF a = <<>> THEN TRUE
    ELSE IF a[1] = b[1] THEN StrLess(Tail(a), Tail(b))
    ELSE Ord(a[1]) < Ord(b[1])

\* code.split(" "), for a code whose string literals hold no space.
RECURSIVE SplitWords(_)
SplitWords(code) ==
    IF FindChar(code, " ", 1) = 0 THEN <<code>>
    ELSE <<SubSeq(code, 1, FindChar(code, " ", 1) - 1)>>
         \o SplitWords(SubSeq(code, FindChar(code, " ", 1) + 1, Len(code)))

\* bool(v)
Truthy(v) ==
    CASE v.t = "str" -> v.s # <<>>
      [] v.t = "bool" -> v.n = 1
      [] v.t \in {"int", "float"} -> v.n # 0
      [] OTHER -> FALSE

\* self.get(var) for a variable whose value holds no reference: the value
\* found, which eval_text returns through auto_type.
get_direct(I, exp, lock, var, v) ==
    IF IsErr(v) THEN v
    ELSE IF v.t = "str" /\ FindVariable(v.s).found THEN Err("Unmodelled")
    ELSE auto_type(v)

\* str(v), of what get returned or raised.
str_of(v) == IF IsErr(v) THEN v ELSE StrV(str(v))

\* The value of an operand of the code.
Operand(w, I, exp, lock) ==
    IF StartsWith(w, <<"s", "t", "r", "(", "s", "e", "l", "f", ".", "g", "e", "t", "(", DQ>>) /\ Len(w) >= 17
       /\ SubSeq(w, Len(w) - 2, Len(w)) = <<DQ, ")", ")">>
    THEN str_of(get_direct(I, exp, lock, SubSeq(w, 15, Len(w) - 3),
                           Lookup(I, exp, lock, SubSeq(w, 15, Len(w) - 3))))
    ELSE IF Len(w) >= 2 /\ w[1] = DQ /\ w[Len(w)] = DQ
            /\ \A i \in 2..Len(w) - 1 : w[i] \notin {DQ, BS, NL}
    THEN StrV(SubSeq(w, 2, Len(w) - 1))
    ELSE IF w = <<"T", "r", "u", "e">> THEN BoolV(TRUE)
    ELSE IF w = <<"F", "a", "l", "s", "e">> THEN BoolV(FALSE)
    ELSE IF w = <<"N", "o", "n", "e">> THEN NoneV
    ELSE Err("Unmodelled")

\* a op b
Compare(a, op, b) ==
    CASE op = <<"=", "=">> -> BoolV(a = b)
      [] op = <<"!", "=">> -> BoolV(a # b)
      [] a.t # "str" \/ b.t # "str" -> Err("Unmodelled")
      [] op = <<"<">> -> BoolV(StrLess(a.s, b.s))
      [] op = <<">">> -> BoolV(StrLess(b.s, a.s))
      [] op = <<"<", "=">> -> BoolV(~StrLess(b.s, a.s))
      [] op = <<">", "=">> -> BoolV(~StrLess(a.s, b.s))
      [] OTHER -> Err("Unmodelled")

RECURSIVE EvalComparison(_, _, _, _)

\* The comparison whose first operand has the value a and whose second
\* one the value b.
EvalCompared(ws, a, b, I, exp, lock) ==
    IF IsErr(a) THEN a
    ELSE IF IsErr(b) THEN b
    ELSE IF Len(ws) = 3 \/ Compare(a, ws[2], b) # BoolV(TRUE) THEN Compare(a, ws[2], b)
    ELSE EvalComparison(SubSeq(ws, 3, Len(ws)), I, exp, lock)

\* operand (operator operand)*
EvalComparison(ws, I, exp, lock) ==
    IF Len(ws) = 1 THEN Operand(ws[1], I, exp, lock)
    ELSE IF Len(ws) = 2 THEN Err("Unmodelled")
    ELSE EvalCompared(ws, Operand(ws[1], I, exp, lock), Operand(ws[3], I, exp, lock),
                      I, exp, lock)

\* not v
Negated(v) == IF IsErr(v) THEN v ELSE BoolV(~Truthy(v))

\* "not"* comparison
RECURSIVE EvalNot(_, _, _, _)
EvalNot(ws, I, exp, lock) ==
    IF ws = <<>> THEN Err("Unmodelled")
    ELSE IF ws[1] = <<"n", "o", "t">> THEN Negated(EvalNot(Tail(ws), I, exp, lock))
    ELSE EvalComparison(ws, I, exp, lock)

\* The position of the first word w of ws, or 0.
FindWord(ws, w) ==
    IF \E i \in 1..Len(ws) : ws[i] = w THEN Least({i \in 1..Len(ws) : ws[i] = w}) ELSE 0

RECURSIVE EvalAnd(_, _, _, _)

\* v and <the words after position p>
EvalAndRest(v, ws, p, I, exp, lock) ==
    IF IsErr(v) \/ ~Truthy(v) THEN v
    ELSE EvalAnd(SubSeq(ws, p + 1, Len(ws)), I, exp, lock)

EvalAndAt(ws, p, I, exp, lock) ==
    IF p = 0 THEN EvalNot(ws, I, exp, lock)
    ELSE EvalAndRest(EvalNot(SubSeq(ws, 1, p - 1), I, exp, lock), ws, p, I, exp, lock)

\* not_test ("and" not_test)*
EvalAnd(ws, I, exp, lock) == EvalAndAt(ws, FindWord(ws, <<"a", "n", "d">>), I, exp, lock)

RECURSIVE EvalOr(_, _, _, _)

\* v or <the words after position p>
EvalOrRest(v, ws, p, I, exp, lock) ==
    IF IsErr(v) \/ Truthy(v) THEN v
    ELSE EvalOr(SubSeq(ws, p + 1, Len(ws)), I, exp, lock)

EvalOrAt(ws, p, I, exp, lock) ==
    IF p = 0 THEN EvalAnd(ws, I, exp, lock)
    ELSE EvalOrRest(EvalAnd(SubSeq(ws, 1, p - 1), I, exp, lock), ws, p, I, exp, lock)

\* and_test ("or" and_test)*
EvalOr(ws, I, exp, lock) == EvalOrAt(ws, FindWord(ws, <<"o", "r">>), I, exp, lock)

\* eval(bytecode), self being the item I.
eval(code, I, exp, lock) == EvalOr(SplitWords(code.s), I, exp, lock)

\* bytecode = item.compile_cond(cond), by a caller that keeps what it got.
CompileCond(cond) ==
    /\ Idle
    /\ last' = Call("compile_cond", NoneV, StrV(cond), TRUE)
    /\ result' = compile_cond(Item, cond)
    /\ bytecode' = IF IsErr(compile_cond(Item, cond)) THEN bytecode
                   ELSE compile_cond(Item, cond)
    /\ UNCHANGED <<attrs, variables, comments, get_lock, experiment, stack, platform>>

\* eval(bytecode) by the caller that holds a compiled condition.
Evaluate ==
    /\ Idle
    /\ bytecode # NoneV
    /\ last' = Call("eval", NoneV, bytecode, FALSE)
    /\ result' = eval(bytecode, Item, experiment, get_lock)
    /\ UNCHANGED <<attrs, variables, comments, get_lock, experiment, stack, bytecode, platform>>

(***************************************************************************)
(* The machine of the conditions: set, unset, compile_cond and the         *)
(* evaluation of what it returned.                                         *)
(***************************************************************************)
A == <<"a">>
RT == <<"r", "t">>

CondUnspaced == <<"[", "r", "t", "]", ">", "2", "0", "0", "a", "n", "d", "[", "r", "t", "]", "<", "5", "0", "0">>
CondSpaced == <<"[", "r", "t", "]", " ", ">", " ", "2", "0", "0", " ", "a", "n", "d", " ", "[", "r", "t", "]", " ", "<", " ", "5", "0", "0">>
CondEquals == <<"[", "a", "]", " ", "=", " ", "1">>
CondAlways == <<"a", "l", "w", "a", "y", "s">>
\* A comparison without its right-hand side.
CondNoOperand == <<"[", "a", "]", "=">>
\* A quotation never closed.
CondOpenQuote == <<"[", "a", "]", " ", "=", " ", DQ, "x">>
CondNone == <<"[", "a", "]", " ", "=", " ", "N", "O", "N", "E">>
CondUpper == <<"[", "a", "]", " ", "=", " ", "1", " ", "A", "N", "D", " ", "T", "R", "U", "E">>

CondTexts ==
    {CondUnspaced, CondSpaced, CondEquals, CondAlways, CondNoOperand,
     CondOpenQuote, CondNone, CondUpper}

CondValues == {IntV(1), IntV(2), IntV(300), IntV(600)}

NextCond ==
    \/ \E var \in {A, RT}, val \in CondValues : Set(var, val)
    \/ \E var \in {A, RT} : Unset(var)
    \/ \E cond \in CondTexts : CompileCond(cond)
    \/ Evaluate

CondSpec == Init /\ [][NextCond]_vars

\* C11: the condition written without spaces, compiled and then evaluated
\* against a store, gives what the condition written with spaces gives
\* against that store.
C11_UnspacedEvaluatesAsSpaced ==
    (Idle /\ last.op = "eval" /\ last.val = compile_cond(Item, CondUnspaced))
        => result = eval(compile_cond(Item, CondSpaced), Item, experiment, get_lock)

\* C12: a call of compile_cond that fails, fails with ConditionSyntaxError,
\* and the error names the condition as the caller passed it.
C12_FailureNamesOriginal ==
    (Idle /\ last.op = "compile_cond" /\ IsErr(result))
        => /\ ErrKind(result) = "ConditionSyntaxError"
           /\ ErrText(result) = last.val.s

\* The bytecode of a condition, which no state of the item bears on.
Compiled(cond) == compile_cond(NewItem, cond)

\* C13: compile_cond leaves the store and the guard as they are and returns
\* what it returns for an item that holds no variable, so it succeeds on
\* "[a] = 1" while a is undefined; the bytecode of "[a] = 1", evaluated,
\* is true while a is 1 and false while a is 2, and the bytecode of
\* "always" is true against any store.
C13_ReferencesResolvedAtEvaluation ==
    [][/\ last'.op = "compile_cond" =>
            /\ UNCHANGED <<attrs, variables, comments, get_lock, experiment>>
            /\ result' = Compiled(last'.val.s)
            /\ last'.val.s = CondEquals => result' = CodeV(cond_code(<<<<"[", "a", "]">>, <<"=">>, <<"1">>>>))
       /\ (last'.op = "eval" /\ bytecode = Compiled(CondEquals) /\ A \in DOMAIN attrs) =>
            /\ attrs[A] = IntV(1) => result' = BoolV(TRUE)
            /\ attrs[A] = IntV(2) => result' = BoolV(FALSE)
       /\ (last'.op = "eval" /\ bytecode = Compiled(CondAlways)) => result' = BoolV(TRUE)
      ]_vars

\* The bytecode of "[a] = 1", compiled while a was undefined, has been
\* evaluated to false with a set to 2.
C13_Witness ==
    /\ last.op = "eval"
    /\ last.val = CodeV(cond_code(<<<<"[", "a", "]">>, <<"=">>, <<"1">>>>))
    /\ A \in DOMAIN variables /\ variables[A] = IntV(2)
    /\ result = BoolV(FALSE)

\* The words the last call of compile_cond made of its condition.
CondWords == shlex_split(fix_spaces(last.val.s)).toks

\* true, false and none, the words with a literal of the language.
LiteralWords == {<<"t", "r", "u", "e">>, <<"f", "a", "l", "s", "e">>, <<"n", "o", "n", "e">>}

\* C18: in the code compile_cond has returned, every word of the condition
\* that in lower case is an operator or a keyword stands in lower case (the
\* bare = stands as ==), except that true, false and none in any case stand
\* as True, False and None: none stands neither as a string nor as a lookup.
C18_KeywordsLowerLiteralsCapitalized ==
    (Idle /\ last.op = "compile_cond" /\ ~IsErr(result)) =>
        \A i \in 1..Len(CondWords) :
            /\ Lower(CondWords[i]) \in LiteralWords
                  => SplitWords(result.s)[i] = Capitalize(CondWords[i])
            /\ Lower(CondWords[i]) \in (operators \cup keywords) \ (LiteralWords \cup {<<"=">>})
                  => SplitWords(result.s)[i] = Lower(CondWords[i])

(***************************************************************************)
(* References: get_refs                                                    *)
(***************************************************************************)

\* A list of texts.  n tells it from every other value.
ListV(l) == [t |-> "list", n |-> -1, s |-> l]

RECURSIVE get_refs_loop(_, _, _, _)

\* item.get_refs from the search of "]" on: start is the place of a "[",
\* end the place of the first "]" after it, 0 for none.
get_refs_end(I, text, l, start, end) ==
    IF end = 0 THEN Err(Named(I, "MalformedReferenceError"))
    ELSE get_refs_loop(I, text, Append(l, SubSeq(text, start + 1, end - 1)), start)

\* item.get_refs from the search of "[" on: start is the place of the next
\* "[", 0 for none.
get_refs_start(I, text, l, start) ==
    IF start = 0 THEN ListV(l)
    ELSE get_refs_end(I, text, l, start, FindChar(text, "]", start + 1))

\* The loop of item.get_refs: l are the names found up to the place start.
get_refs_loop(I, text, l, start) ==
    get_refs_start(I, text, l, FindChar(text, "[", start + 1))

\* item.get_refs(text)
get_refs(I, text) ==
    IF text.t # "str" THEN ListV(<<>>) ELSE get_refs_loop(I, text.s, <<>>, 0)

\* item.get_refs(text)
GetRefs(text) ==
    /\ Idle
    /\ last' = Call("get_refs", NoneV, text, FALSE)
    /\ result' = get_refs(Item, text)
    /\ UNCHANGED <<attrs, variables, comments, get_lock, experiment, stack, bytecode, platform>>

(***************************************************************************)
(* The machine of the references: set, unset and get_refs.                 *)
(***************************************************************************)
B == <<"b">>
RefB == <<"[", "b", "]">>

\* Two references, one reference never closed, a reference inside a
\* reference, a closing bracket before the opening one, no reference, an
\* empty reference.
RefTexts ==
    {<<"s", "=", "[", "a", "]", ",", " ", "t", "=", "[", "b", "]">>,
     <<"[", "u">>,
     <<"[", "a", "[", "b", "]", "]">>,
     <<"a", "]", "[", "b">>,
     <<"a", "b">>,
     <<"[", "]", "]">>}

NextRef ==
    \/ \E var \in {A, B}, val \in {IntV(1), StrV(RefB), StrV(<<"[", "u">>)} : Set(var, val)
    \/ \E var \in {A, B} : Unset(var)
    \/ \E text \in RefTexts : GetRefs(StrV(text))
    \/ GetRefs(IntV(5))

RefSpec == Init /\ [][NextRef]_vars

\* The depth of brackets at the end of s, or -1 when a closing bracket of
\* s has no opening bracket before it.
RECURSIVE Depth(_, _)
Depth(s, d) ==
    IF d < 0 \/ s = <<>> THEN d
    ELSE Depth(Tail(s), IF Head(s) = "[" THEN d + 1 ELSE IF Head(s) = "]" THEN d - 1 ELSE d)

\* s holds no bracket.
Plain(s) == \A i \in 1..Len(s) : s[i] \notin {"[", "]"}

\* The contents of the bracket pairs of text that hold no bracket, left to
\* right, from the place i on.
RECURSIVE PlainPairs(_, _)
PlainPairs(text, i) ==
    IF i > Len(text) THEN <<>>
    ELSE IF text[i] = "[" /\ FindChar(text, "]", i + 1) # 0
            /\ Plain(SubSeq(text, i + 1, FindChar(text, "]", i + 1) - 1))
    THEN <<SubSeq(text, i + 1, FindChar(text, "]", i + 1) - 1)>> \o PlainPairs(text, i + 1)
    ELSE PlainPairs(text, i + 1)

\* C14: get_refs of a text fails with MalformedReferenceError exactly when
\* an opening bracket of the text has no closing bracket after it;
\* otherwise it returns a list of which every element is what stands
\* between an opening bracket and the closing bracket that matches it, and
\* which holds, left to right, the contents of the pairs without a bracket
\* inside.
C14_RefsAreBracketContents ==
    (Idle /\ last.op = "get_refs" /\ last.val.t = "str") =>
        IF \E i \in 1..Len(last.val.s) :
              last.val.s[i] = "[" /\ FindChar(last.val.s, "]", i + 1) = 0
        THEN result = Err("MalformedReferenceError")
        ELSE /\ result.t = "list"
             /\ \A k \in 1..Len(result.s) : Depth(result.s[k], 0) = 0
             /\ SelectSeq(result.s, Plain) = PlainPairs(last.val.s, 1)

(***************************************************************************)
(* The codec: usanitize, sanitize and unsanitize.  A text here is a        *)
(* unicode object, the sequence of its code units, each unit the number of *)
(* a code point.  platform is the build the program runs on: wide tells    *)
(* whether a unicode object holds a code point above U+FFFF as one unit    *)
(* (a build with wide unicode) or as two surrogates, linesep is            *)
(* os.linesep.                                                             *)
(***************************************************************************)
UniV(s) == [t |-> "unicode", n |-> -2, s |-> s]

Platforms == [wide : BOOLEAN, linesep : {<<10>>, <<13, 10>>}]

\* The unicode object of the code points s.
RECURSIVE Units(_, _)
Units(s, wide) ==
    IF s = <<>> THEN <<>>
    ELSE (IF Head(s) > 65535 /\ ~wide
          THEN <<55296 + ((Head(s) - 65536) \div 1024), 56320 + ((Head(s) - 65536) % 1024)>>
          ELSE <<Head(s)>>) \o Units(Tail(s), wide)

\* The highest code point written as it is, and the backslash.
ASCII_MAX == 127
BACKSLASH == 92

\* "%X" % n
RECURSIVE Hex(_)
Hex(n) ==
    IF n < 16 THEN <<IF n < 10 THEN 48 + n ELSE 55 + n>>
    ELSE Hex(n \div 16) \o Hex(n % 16)

\* Zeros before the digits h up to the precision of 4.
RECURSIVE Pad4(_)
Pad4(h) == IF Len(h) >= 4 THEN h ELSE Pad4(<<48>> \o h)

\* 'U+%.4X' % n
Format4X(n) == <<85, 43>> \o Pad4(Hex(n))

\* What usanitize writes for one character.
usanitize_char(ch, strict) ==
    IF ch > ASCII_MAX \/ ch = BACKSLASH
    THEN (IF ~strict THEN Format4X(ch) ELSE <<>>)
    ELSE <<ch>>

RECURSIVE usanitize_loop(_, _)
usanitize_loop(s, strict) ==
    IF s = <<>> THEN <<>>
    ELSE usanitize_char(Head(s), strict) \o usanitize_loop(Tail(s), strict)

\* s.replace(old, new)
RECURSIVE replace(_, _, _)
replace(s, old, new) ==
    IF Len(s) < Len(old) THEN s
    ELSE IF SubSeq(s, 1, Len(old)) = old
    THEN new \o replace(SubSeq(s, Len(old) + 1, Len(s)), old, new)
    ELSE <<Head(s)>> \o replace(Tail(s), old, new)

\* item.usanitize(s, strict), for s a text
usanitize(s, strict, p) == replace(usanitize_loop(s, strict), p.linesep, <<10>>)

\* regexp.sanitize_loose: the characters sanitize removes besides; the
\* double quote is the one item.sanitize documents.
sanitize_loose == {34}

\* regexp.sanitize_strict_novars: all but the characters of identifiers
\* and whitespace.
sanitize_strict_keeps ==
    (48..57) \cup (65..90) \cup (97..122) \cup {95} \cup {9, 10, 11, 12, 13, 32}

\* regex.sub('', s), for a regex of the characters of a set.
Without(s, chars) == SelectSeq(s, LAMBDA ch : ch \notin chars)
Only(s, chars) == SelectSeq(s, LAMBDA ch : ch \in chars)

\* item.sanitize(s, strict, allow_vars)
sanitize(s, strict, allow_vars, p) ==
    IF strict THEN
        IF allow_vars THEN Only(s, sanitize_strict_keeps \cup {91, 93})
        ELSE Only(s, sanitize_strict_keeps)
    ELSE Without(usanitize(s, strict, p), sanitize_loose)

\* regexp.unsanitize matches s at i: U+ and four upper case hex digits.
TokenAt(s, i) ==
    /\ i + 5 <= Len(s)
    /\ s[i] = 85 /\ s[i + 1] = 43
    /\ \A k \in 2..5 : s[i + k] \in (48..57) \cup (65..70)

\* int(h, 16) of one digit.
HexVal(c) == IF c <= 57 THEN c - 48 ELSE c - 55

\* int(m.group(1), 16)
TokenValue(s, i) ==
    HexVal(s[i + 2]) * 4096 + HexVal(s[i + 3]) * 256 + HexVal(s[i + 4]) * 16 + HexVal(s[i + 5])

RECURSIVE unsanitize(_)

\* s.replace(m.group(0), unichr(int(m.group(1), 16)), 1) for the match at
\* i, and the loop again.
unsanitize_at(s, i) ==
    unsanitize(SubSeq(s, 1, i - 1) \o <<TokenValue(s, i)>> \o SubSeq(s, i + 6, Len(s)))

\* item.unsanitize(s)
unsanitize(s) ==
    IF \E i \in 1..Len(s) : TokenAt(s, i)
    THEN unsanitize_at(s, Least({i \in 1..Len(s) : TokenAt(s, i)}))
    ELSE s

\* item.sanitize(s, strict) of the text of the code points text
Sanitize(text, strict) ==
    /\ Idle
    /\ last' = Call("sanitize", NoneV, UniV(Units(text, platform.wide)), strict)
    /\ result' = UniV(sanitize(Units(text, platform.wide), strict, TRUE, platform))
    /\ UNCHANGED <<attrs, variables, comments, get_lock, experiment, stack, bytecode, platform>>

\* item.unsanitize(s) of the text a call has returned
Unsanitize ==
    /\ Idle
    /\ result.t = "unicode"
    /\ last' = Call("unsanitize", NoneV, result, FALSE)
    /\ result' = UniV(unsanitize(result.s))
    /\ UNCHANGED <<attrs, variables, comments, get_lock, experiment, stack, bytecode, platform>>

(***************************************************************************)
(* The machine of the codec, on any platform: sanitize of a text and       *)
(* unsanitize of what was returned.                                        *)
(***************************************************************************)
MaxText == 2

\* A, the double quote, the backslash, e with acute accent, a code point
\* above U+FFFF, the line feed, the carriage return and U.
CodePoints == {65, 34, 92, 233, 128512, 10, 13, 85}

CodecTexts == UNION {[1..n -> CodePoints] : n \in 0..MaxText}

InitCodec ==
    /\ attrs = NewItem.attrs
    /\ variables = EmptyMap
    /\ comments = <<>>
    /\ get_lock = NoneV
    /\ experiment = EmptyMap
    /\ stack = <<>>
    /\ last = [op |-> "init", var |-> NoneV, val |-> NoneV, flag |-> FALSE,
               after |-> NoneV]
    /\ result = NoneV
    /\ bytecode = NoneV
    /\ platform \in Platforms

NextCodec ==
    \/ \E text \in CodecTexts, strict \in BOOLEAN : Sanitize(text, strict)
    \/ Unsanitize

CodecSpec == InitCodec /\ [][NextCodec]_vars

\* The text on the platform, and the text with its line ends normalized.
Text(text) == Units(text, platform.wide)
Normalized(text) == replace(Units(text, platform.wide), platform.linesep, <<10>>)

\* C15: unsanitize of what sanitize(s, strict=False) returned for a text s
\* without the shape U+XXXX in it is s with its line ends normalized, and
\* sanitize of one character above 127, or of the backslash, is one token:
\* U+ and exactly four upper case hex digits.
C15_SanitizeRoundTrip ==
    /\ (Idle /\ last.op = "unsanitize") =>
          \A text \in CodecTexts :
              (/\ \A i \in 1..Len(Text(text)) : ~TokenAt(Text(text), i)
               /\ last.val = UniV(sanitize(Text(text), FALSE, TRUE, platform)))
                  => result = UniV(Normalized(text))
    /\ (Idle /\ last.op = "sanitize" /\ ~last.flag) =>
          \A cp \in CodePoints :
              ((cp > 127 \/ cp = 92) /\ last.val = UniV(Text(<<cp>>)))
                  => Len(result.s) = 6 /\ TokenAt(result.s, 1)

(***************************************************************************)
(* The machine of the types: set and auto_type.                            *)
(***************************************************************************)

\* item.auto_type(val)
AutoType(val) ==
    /\ Idle
    /\ last' = Call("auto_type", NoneV, val, FALSE)
    /\ result' = auto_type(val)
    /\ UNCHANGED <<attrs, variables, comments, get_lock, experiment, stack, bytecode, platform>>

Three == <<"3">>
ThreePointZero == <<"3", ".", "0">>
ThreePointFifty == <<"3", ".", "5", "0">>
WordThree == <<"t", "h", "r", "e", "e">>
Yes == <<"y", "e", "s">>
No == <<"n", "o">>

TypeValues ==
    {BoolV(TRUE), BoolV(FALSE), IntV(3), FloatV(3 * Scale), FloatV(35 * Pow10(FracDigits - 1)),
     StrV(Three), StrV(ThreePointZero), StrV(ThreePointFifty), StrV(<<>>), StrV(WordThree),
     StrV(<<".">>), StrV(<<"-", ".", "5">>), StrV(<<" ", "3", NL>>), StrV(<<"3", " ", "0">>)}

NextType ==
    \/ \E var \in {X, Y}, val \in TypeValues : Set(var, val)
    \/ \E val \in TypeValues : AutoType(val)

TypeSpec == Init /\ [][NextType]_vars

\* C16: auto_type returns "yes" for true and "no" for false, the integer 3
\* for "3", "3.0", 3 and 3.0, the float 3.5 for "3.50" and 3.5, and the
\* string as it is for "", "three" and "."; whatever it returns is an
\* integer, a float or a string, a string only if it was given that very
\* string or a boolean, and auto_type returns it as it is when given it
\* again; no variable that set has stored holds a boolean.
C16_AutoTypeClassifies ==
    /\ (Idle /\ last.op = "auto_type") =>
          /\ last.val = BoolV(TRUE) => result = StrV(Yes)
          /\ last.val = BoolV(FALSE) => result = StrV(No)
          /\ last.val \in {StrV(Three), StrV(ThreePointZero), IntV(3), FloatV(3 * Scale)}
                => result = IntV(3)
          /\ last.val \in {StrV(ThreePointFifty), FloatV(35 * Pow10(FracDigits - 1))}
                => result = FloatV(35 * Pow10(FracDigits - 1))
          /\ last.val \in {StrV(<<>>), StrV(WordThree), StrV(<<".">>)} => result = last.val
          /\ result.t \in {"int", "float", "str"}
          /\ (result.t = "str" /\ last.val.t # "bool") => result = last.val
          /\ auto_type(result) = result
    /\ \A var \in DOMAIN variables : variables[var].t # "bool" /\ attrs[var].t # "bool"

\* auto_type has made the float 3.5 of "3.50" while x, set to true, holds
\* the string "yes".
C16_Witness ==
    /\ last.op = "auto_type" /\ last.val = StrV(ThreePointFifty)
    /\ result = FloatV(35 * Pow10(FracDigits - 1))
    /\ X \in DOMAIN variables /\ variables[X] = StrV(Yes)

(***************************************************************************)
(* The machine of the blocks: from_string on texts with blocks, with       *)
(* "__end__" lines outside a block and with a comment, and set and unset.  *)
(***************************************************************************)

\* A block opened and written with a tab in front of every line.
TextTabbed == <<TAB, "_", "_", "y", "_", "_", NL, TAB, "a", "b", NL, TAB, "_", "_", "e", "n", "d", "_", "_">>
\* A block opened with a tab, one line of which has no tab in front.
TextMixed == <<TAB, "_", "_", "y", "_", "_", NL, TAB, "a", NL, "b", NL, TAB, "_", "_", "e", "n", "d", "_", "_">>
\* A block opened without a tab, with a tab in front of its line.
TextUntabbed == <<"_", "_", "y", "_", "_", NL, TAB, "a", "b", NL, "_", "_", "e", "n", "d", "_", "_">>
\* "__end__" with no block opened before it, after the block was closed,
\* and after an opening line with no name.
TextEndOnly == <<"_", "_", "e", "n", "d", "_", "_">>
TextEndTwice == <<"_", "_", "y", "_", "_", NL, "a", NL, "_", "_", "e", "n", "d", "_", "_", NL, "_", "_", "e", "n", "d", "_", "_">>
TextEmptyName == <<"_", "_", "_", "_", NL, "_", "_", "e", "n", "d", "_", "_">>

BlockTexts == {TextTabbed, TextMixed, TextUntabbed}
EndTexts == {TextEndOnly, TextEndTwice, TextEmptyName}

NextParse ==
    \/ \E text \in BlockTexts \cup EndTexts \cup {TextPlain} : Parse(text)
    \/ \E val \in {IntV(5), StrV(<<"a">>)} : Set(X, val)
    \/ Unset(X)

ParseSpec == Init /\ [][NextParse]_vars

\* A content line as the block is to hold it, opening being the opening
\* line of the block: without its first tab when both begin with a tab.
ClaimedLine(opening, line) ==
    IF opening[1] = TAB /\ line # <<>> /\ line[1] = TAB THEN Tail(line) ELSE line

\* The text the block of the lines is to hold: the first line opens the
\* block, the last one ends it.
ClaimedBlock(lines) ==
    Flatten([i \in 1..Len(lines) - 2 |-> ClaimedLine(lines[1], lines[i + 1]) \o <<NL>>])

\* C17: from_string of a text that is one block named y has stored, as y,
\* the lines of the block, each followed by a newline: each line without
\* its leading tab, and with nothing else removed, when the opening line
\* begins with a tab, and each line as it is when it does not.
C17_OneLeadingTabRemoved ==
    (Idle /\ last.op = "from_string" /\ last.val.s \in BlockTexts) =>
        /\ result = NoneV
        /\ Y \in DOMAIN variables
        /\ variables[Y] = StrV(ClaimedBlock(SplitLines(last.val.s)))

\* C19: when from_string, having returned for a text, is called with the
\* same text again, it leaves the variables and the comments as they were.
C19_ParsingTwiceAsOnce ==
    [][(/\ Idle /\ last.op = "from_string" /\ result = NoneV
        /\ last'.op = "from_string" /\ last'.val = last.val)
            => (variables' = variables /\ comments' = comments)]_vars

\* C20: from_string of a text whose "__end__" line meets no open block has
\* stored no variable for that line, and if it has failed it has failed
\* with ScriptSyntaxError.
C20_EndWithoutBlock ==
    (Idle /\ last.op = "from_string" /\ last.val.s \in EndTexts) =>
        /\ DOMAIN variables = (IF last.val.s = TextEndTwice THEN {Y} ELSE {})
        /\ IsErr(result) => ErrKind(result) = "ScriptSyntaxError"

(***************************************************************************)
(* The machine of the reserved words: from_string on texts that name an    *)
(* operation of the item, and set and unset.                               *)
(***************************************************************************)

\* A block named after an operation.
TextReservedBlock == <<"_", "_", "r", "u", "n", "_", "_", NL, "a", NL, "_", "_", "e", "n", "d", "_", "_">>
\* A line that sets a variable named after an operation.
TextReservedLine == <<"s", "e", "t", " ", "g", "e", "t", " ", DQ, "5", DQ>>
\* Both: a line and a block.
TextReservedBoth == <<"s", "e", "t", " ", "h", "a", "s", " ", DQ, "a", DQ, NL, "_", "_", "g", "e", "t", "_", "_", NL, "b", NL, "_", "_", "e", "n", "d", "_", "_">>

ReservedTexts == {TextReservedBlock, TextReservedLine, TextReservedBoth}

NextWord ==
    \/ \E text \in ReservedTexts \cup {TextPlain, TextTabbed} : Parse(text)
    \/ \E var \in {X, Y}, val \in {IntV(5), StrV(<<"a">>)} : Set(var, val)
    \/ \E var \in {X, Y} : Unset(var)

WordSpec == Init /\ [][NextWord]_vars

\* C21: after from_string no reserved word is a key of the variables, and
\* every operation with a reserved name is still the operation the class
\* gave the item; the block named run is stored as _run.
C21_NoReservedNameStored ==
    (Idle /\ last.op = "from_string") =>
        /\ \A word \in reserved_words : word \notin DOMAIN variables /\ Callable(word)
        /\ (last.val.s = TextReservedBlock /\ result = NoneV)
              => <<"_", "r", "u", "n">> \in DOMAIN variables

====
